---- MODULE Spec2Model ----
(***************************************************************************)
(* A model of the artmap DMX remapping proxy (gopatchy/artmap).            *)
(*                                                                         *)
(*   - the remap engine with the pull interface (Remap, GetDirtyOutputs,   *)
(*     SwapStats) of package remap, one merge buffer per destination       *)
(*     universe, each with its own mutex and dirty flag;                   *)
(*   - the remap engine with the push interface (Remap returns the         *)
(*     outputs) of src/remap/engine.go;                                    *)
(*   - the per-universe sequence counters of the Art-Net and sACN senders. *)
(*                                                                         *)
(* A DMX frame has 512 channels in the program; the model keeps the code   *)
(* and shortens the frame to FrameLen channels.                            *)
(***************************************************************************)
EXTENDS Integers, Sequences, FiniteSets, TLC

\* ------------------------------------------------------------------ bounds

\* Channels per frame in the model (the program's frames are [512]byte).
FrameLen == 3

\* Cap on a source counter (atomic.Uint64 in the program) in the guards.
MaxCount == 1

\* Cap on the Remap calls counted per source in the concurrent
\* specifications.
MaxCalls == 2

\* ------------------------------------------------------------ data model

Chans == 0 .. (FrameLen - 1)

\* config.Universe: a protocol and a 16 bit number.
Universe(proto, num) == [Protocol |-> proto, Number |-> num]

ZeroFrame == [i \in Chans |-> 0]

\* Input frames: every byte of every frame is different and none is zero,
\* so a byte of a merge buffer tells which frame and channel it came from.
FrameBases == {1, 101}

Frames == {[i \in Chans |-> (b + i) % 256] : b \in FrameBases}

\* Universes that mappings read from and write to, and one no table maps.
SrcUniverses == {Universe("artnet", 0), Universe("sacn", 2)}

DstUniverses == {Universe("artnet", 1), Universe("sacn", 1)}

UnmatchedUniverse == Universe("artnet", 99)

RemapSources == SrcUniverses \cup {UnmatchedUniverse}

\* config.NormalizedMapping, with the invariants Normalize guarantees:
\* Count >= 1, FromChan + Count <= 512, ToChan + Count <= 512.
NormalizedMapping(from, fromChan, to, toChan, count) ==
    [From |-> from, FromChan |-> fromChan, To |-> to, ToChan |-> toChan,
     Count |-> count]

ChannelRanges ==
    {r \in Chans \X Chans \X (1 .. FrameLen) :
        r[1] + r[3] <= FrameLen /\ r[2] + r[3] <= FrameLen}

NormalizedMappings(srcs, dsts) ==
    {NormalizedMapping(s, r[1], d, r[2], r[3]) :
        s \in srcs, d \in dsts, r \in ChannelRanges}

\* The mapping tables the engine is built from: every table of one mapping
\* and every table of two.  The universes of a table's first mapping are
\* fixed: the engine only compares universes for equality.
FirstMappings ==
    NormalizedMappings({Universe("artnet", 0)}, {Universe("artnet", 1)})

Tables ==
    {<<m>> : m \in FirstMappings}
        \cup {<<m1, m2>> : m1 \in FirstMappings,
                           m2 \in NormalizedMappings(SrcUniverses, DstUniverses)}

SeqRange(s) == {s[i] : i \in 1 .. Len(s)}

\* The orders a Go map of these keys can be ranged over.
Orders(keys) ==
    {o \in [1 .. Cardinality(keys) -> keys] : SeqRange(o) = keys}

\* ------------------------------------------------------------- variables

VARIABLES
    mappings,   \* Engine.mappings
    bySource,   \* Engine.bySource: Universe -> [mappings, counter]
    outputs,    \* Engine.outputs: Universe -> [mu, data, dirty]
    lastCall,   \* the call that ran last: its arguments and what it
                \* returned
    touched,    \* destinations a mapping was applied to since the last
                \* GetDirtyOutputs
    pc,         \* where each goroutine stands in the call it runs
    local,      \* the arguments and locals of the call each goroutine runs
    called,     \* per source, the Remap calls that found its entry
    reported,   \* per source, the sum of what SwapStats calls returned
    pushBySource,   \* push engine: Engine.bySource
    pushState,      \* push engine: Engine.state, Universe -> frame
    pushLast,       \* push engine: the last Remap, its arguments and result
    phase,          \* whose turn it is when both engines get the same calls
    artSequences,   \* artnet.Sender.sequences
    artSent,        \* per universe, the Art-Net SendDMX calls made
    artPacket,      \* the last packet the Art-Net sender built and wrote
    sacnSequences,  \* sacn.Sender.sequences
    sacnSent,       \* per universe, the sACN send calls made
    sacnPacket,     \* the last packet the sACN sender built and wrote
    nodes,          \* artnet.Discovery.nodes: IP -> Node
    localIP,        \* artnet.Discovery.localIP
    now,            \* time.Now(), in poll intervals of 10 s
    cleanupTick,    \* cleanupTicker.C holds a tick
    advertised,     \* per node, the universes of DMX output ports that the
                    \* replies handled since the node was created reported
    mirror,         \* the nodes of a second Discovery, handed the same
                    \* replies in the other order
    cfgTargets,     \* Config.Targets
    targets,        \* App.targets: Art-Net universe -> address
    broadcasts,     \* App.broadcasts
    wire,           \* per socket, the packets written to it, in order
    doneCh,         \* the done channels that are closed, by owner
    connClosed,     \* the receivers whose socket is closed
    pollTick,       \* the 10 s ticker's channel holds a tick
    ticks,          \* the ticks the 10 s ticker has fired
    polls,          \* the sendPolls rounds completed, the sends of the
                    \* last round and whether a send has failed so far
    received        \* per receiver, the reads that have returned

engineVars == <<mappings, bySource, outputs>>

callVars == <<lastCall, touched>>

procVars == <<pc, local, called, reported>>

pushVars == <<pushBySource, pushState, pushLast, phase>>

artVars == <<artSequences, artSent, artPacket>>

sacnVars == <<sacnSequences, sacnSent, sacnPacket>>

\* The variables of the components other than the pull engine.
discVars == <<nodes, localIP, now, cleanupTick, advertised, mirror>>

appVars == <<cfgTargets, targets, broadcasts>>

\* The variables of discovery, of the dispatcher and of the sockets.
loopVars == <<doneCh, connClosed, pollTick, ticks, polls, received>>

netVars == <<discVars, appVars, wire, loopVars>>

otherVars == <<pushVars, artVars, sacnVars, netVars>>

vars == <<mappings, bySource, outputs, lastCall, touched, pc, local, called,
          reported, pushBySource, pushState, pushLast, phase, artSequences,
          artSent, artPacket, sacnSequences, sacnSent, sacnPacket, nodes,
          localIP, now, cleanupTick, advertised, mirror, cfgTargets, targets,
          broadcasts, wire, doneCh, connClosed, pollTick, ticks, polls,
          received>>

NoCall == [op |-> "none"]

\* The goroutines of the concurrent specifications: two receive tasks that
\* call Remap, one that pulls the dirty outputs, one that swaps the stats.
RemapProcs == {"rx1", "rx2"}

DirtyProc == "tx"

StatsProc == "stats"

Procs == RemapProcs \cup {DirtyProc, StatsProc}

NoLocal == [k |-> 0]

IdleProcs ==
    /\ pc = [p \in Procs |-> "idle"]
    /\ local = [p \in Procs |-> NoLocal]
    /\ called = <<>>
    /\ reported = <<>>

NoPacket == [Universe |-> -1]

\* No push engine is built.
NoPush ==
    /\ pushBySource = <<>>
    /\ pushState = <<>>
    /\ pushLast = NoCall
    /\ phase = "none"

\* The senders as NewSender leaves them, with their universes.
NewArtSender(universes) ==
    /\ artSequences = <<>>
    /\ artSent = [u \in universes |-> 0]
    /\ artPacket = NoPacket

NewSacnSender(universes) ==
    /\ sacnSequences = <<>>
    /\ sacnSent = [u \in universes |-> 0]
    /\ sacnPacket = NoPacket

\* No discovery runs.
NoDiscovery ==
    /\ nodes = <<>>
    /\ localIP = <<0, 0, 0, 0>>
    /\ now = 0
    /\ cleanupTick = FALSE
    /\ advertised = <<>>
    /\ mirror = <<>>

\* No dispatcher is configured.
NoApp ==
    /\ cfgTargets = <<>>
    /\ targets = <<>>
    /\ broadcasts = <<>>

\* No poll loop and no receive loop runs.
NoLoops ==
    /\ doneCh = {}
    /\ connClosed = {}
    /\ pollTick = FALSE
    /\ ticks = 0
    /\ polls = [rounds |-> 0, round |-> <<>>, failed |-> FALSE]
    /\ received = <<>>

\* No discovery runs, no dispatcher is configured and no socket is watched.
NoNet ==
    /\ NoDiscovery
    /\ NoApp
    /\ wire = <<>>
    /\ NoLoops

\* No pull engine is built.
NoEngine ==
    /\ mappings = <<>>
    /\ bySource = <<>>
    /\ outputs = <<>>
    /\ lastCall = NoCall
    /\ touched = {}

\* --------------------------------------------------- remap engine (pull)

\* NewEngine: the sourceEntry of every source and the universeBuffer of
\* every destination of the table.
NewBySource(ms) ==
    [u \in {ms[i].From : i \in 1 .. Len(ms)} |->
        [mappings |-> SelectSeq(ms, LAMBDA m : m.From = u), counter |-> 0]]

NewOutputs(ms) ==
    [u \in {ms[i].To : i \in 1 .. Len(ms)} |->
        [mu |-> "free", data |-> ZeroFrame, dirty |-> FALSE]]

\* The copy loop of applyMapping, from iteration i on.
RECURSIVE copyChannels(_, _, _, _)
copyChannels(data, m, srcData, i) ==
    IF i >= m.Count THEN data
    ELSE LET srcChan == m.FromChan + i
             dstChan == m.ToChan + i
         IN  copyChannels(
                 IF srcChan < FrameLen /\ dstChan < FrameLen
                 THEN [data EXCEPT ![dstChan] = srcData[srcChan]]
                 ELSE data,
                 m, srcData, i + 1)

\* applyMapping copying without the channel shift (dst[ToChan+i] from
\* src[ToChan+i]).
applyMappingUnshifted(buf, m, srcData) ==
    [buf EXCEPT !.data = [d \in Chans |->
                             IF m.ToChan <= d /\ d < m.ToChan + m.Count
                             THEN srcData[d] ELSE buf.data[d]],
                !.dirty = TRUE]

\* applyMapping leaving the dirty flag as it is.
applyMappingNoDirty(buf, m, srcData) ==
    [buf EXCEPT !.data = copyChannels(buf.data, m, srcData, 0)]

\* applyMapping, on the buffer it locks.
applyMapping(buf, m, srcData) ==
    [buf EXCEPT !.data = copyChannels(buf.data, m, srcData, 0),
                !.dirty = TRUE]

\* The loop of Remap clearing each buffer before it copies into it.
RECURSIVE applyMappingsZeroing(_, _, _, _)
applyMappingsZeroing(outs, ms, srcData, k) ==
    IF k > Len(ms) THEN outs
    ELSE applyMappingsZeroing(
             [outs EXCEPT ![ms[k].To] =
                 applyMapping([@ EXCEPT !.data = ZeroFrame], ms[k], srcData)],
             ms, srcData, k + 1)

\* The loop of Remap leaving after the first mapping.
applyMappingsFirstOnly(outs, ms, srcData, k) ==
    IF k > Len(ms) THEN outs
    ELSE [outs EXCEPT ![ms[k].To] = applyMapping(@, ms[k], srcData)]

\* The loop of Remap run from the last mapping of the source to the first.
RECURSIVE applyMappingsReversed(_, _, _, _)
applyMappingsReversed(outs, ms, srcData, k) ==
    IF k > Len(ms) THEN outs
    ELSE [applyMappingsReversed(outs, ms, srcData, k + 1) EXCEPT
             ![ms[k].To] = applyMapping(@, ms[k], srcData)]

\* The loop of Remap over entry.mappings, from the k-th mapping on.
RECURSIVE applyMappings(_, _, _, _)
applyMappings(outs, ms, srcData, k) ==
    IF k > Len(ms) THEN outs
    ELSE applyMappings(
             [outs EXCEPT ![ms[k].To] = applyMapping(@, ms[k], srcData)],
             ms, srcData, k + 1)

\* getDirtyOutput leaving the dirty flag set.
getDirtyOutputKeepDirty(u, buf) ==
    [ok |-> buf.dirty, out |-> [Universe |-> u, Data |-> buf.data],
     buf |-> buf]

\* getDirtyOutput: the output, whether there is one, and the buffer after.
getDirtyOutput(u, buf) ==
    IF ~buf.dirty
    THEN [ok |-> FALSE, out |-> [Universe |-> u, Data |-> ZeroFrame],
          buf |-> buf]
    ELSE [ok |-> TRUE, out |-> [Universe |-> u, Data |-> buf.data],
          buf |-> [buf EXCEPT !.dirty = FALSE]]

\* The loop of GetDirtyOutputs over e.outputs in the order the map yields.
RECURSIVE collectDirty(_, _, _, _)
collectDirty(outs, order, k, res) ==
    IF k > Len(order) THEN [outputs |-> outs, result |-> res]
    ELSE LET u == order[k]
             g == getDirtyOutput(u, outs[u])
         IN  collectDirty([outs EXCEPT ![u] = g.buf], order, k + 1,
                          IF g.ok THEN Append(res, g.out) ELSE res)

\* entry.counter.Swap(0) reading the counter without resetting it.
swapCounterLoadOnly(entry) ==
    [value |-> entry.counter, entry |-> entry]

\* entry.counter.Swap(0): the value before, and the entry after.
swapCounter(entry) ==
    [value |-> entry.counter, entry |-> [entry EXCEPT !.counter = 0]]

\* The loop of SwapStats: every counter swapped with zero.
swapCounters(bs) ==
    [stats |-> [u \in DOMAIN bs |-> swapCounter(bs[u]).value],
     bySource |-> [u \in DOMAIN bs |-> swapCounter(bs[u]).entry]]

\* Destinations of the mappings of src in the table.
DestinationsOf(src) ==
    {mappings[i].To : i \in {j \in 1 .. Len(mappings) : mappings[j].From = src}}

Init ==
    /\ mappings \in Tables
    /\ bySource = NewBySource(mappings)
    /\ outputs = NewOutputs(mappings)
    /\ lastCall = NoCall
    /\ touched = {}
    /\ IdleProcs
    /\ NoPush
    /\ NewArtSender({})
    /\ NewSacnSender({})
    /\ NoNet

\* Remap ranging over e.mappings, the whole table, without the lookup of
\* the source.
RemapAnySource(src, srcData) ==
    /\ lastCall' = [op |-> "Remap", src |-> src, srcData |-> srcData]
    /\ touched' = touched \cup DestinationsOf(src)
    /\ outputs' = applyMappings(outputs, mappings, srcData, 1)
    /\ UNCHANGED <<mappings, bySource, procVars, otherVars>>

\* Remap, run from its call to its return: what it does to the engine.
EngineRemap(src, srcData) ==
    /\ lastCall' = [op |-> "Remap", src |-> src, srcData |-> srcData]
    /\ touched' = touched \cup DestinationsOf(src)
    /\ IF src \notin DOMAIN bySource
       THEN UNCHANGED <<bySource, outputs>>
       ELSE /\ bySource[src].counter < MaxCount
            /\ bySource' = [bySource EXCEPT ![src].counter = @ + 1]
            /\ outputs' = applyMappings(outputs, bySource[src].mappings,
                                        srcData, 1)
    /\ UNCHANGED mappings

Remap(src, srcData) ==
    /\ EngineRemap(src, srcData)
    /\ UNCHANGED <<procVars, otherVars>>

\* GetDirtyOutputs, run from its call to its return.
EngineGetDirtyOutputs(order) ==
    LET c == collectDirty(outputs, order, 1, <<>>)
    IN  /\ outputs' = c.outputs
        /\ lastCall' = [op |-> "GetDirtyOutputs", result |-> c.result]
        /\ touched' = {}
        /\ UNCHANGED <<mappings, bySource>>

GetDirtyOutputs(order) ==
    /\ EngineGetDirtyOutputs(order)
    /\ UNCHANGED <<procVars, otherVars>>

\* SwapStats, run from its call to its return.
EngineSwapStats ==
    LET s == swapCounters(bySource)
    IN  /\ bySource' = s.bySource
        /\ lastCall' = [op |-> "SwapStats", result |-> s.stats]
        /\ UNCHANGED <<mappings, outputs, touched>>

SwapStats ==
    /\ EngineSwapStats
    /\ UNCHANGED <<procVars, otherVars>>

Next ==
    \/ \E src \in RemapSources, srcData \in Frames : Remap(src, srcData)
    \/ \E order \in Orders(DOMAIN outputs) : GetDirtyOutputs(order)
    \/ SwapStats

Spec == Init /\ [][Next]_vars

\* ------------------------------------- remap engine (pull), concurrently

\* The tables of the concurrent specifications: a fan-out of one source to
\* two destinations, two sources merged into one destination, one source
\* mapped twice into one destination (apart and overlapping), and two
\* independent mappings.
ConcTables ==
    LET a0 == Universe("artnet", 0)
        s2 == Universe("sacn", 2)
        a1 == Universe("artnet", 1)
        s1 == Universe("sacn", 1)
        last == FrameLen - 1
    IN  {<<NormalizedMapping(a0, 0, a1, 0, FrameLen),
           NormalizedMapping(a0, 0, s1, 0, FrameLen)>>,
         <<NormalizedMapping(a0, 0, a1, 0, 1),
           NormalizedMapping(s2, 0, a1, last, 1)>>,
         <<NormalizedMapping(a0, 0, a1, 0, 1),
           NormalizedMapping(a0, last, a1, last, 1)>>,
         <<NormalizedMapping(a0, 0, a1, 0, FrameLen),
           NormalizedMapping(a0, last, a1, 0, 1)>>,
         <<NormalizedMapping(a0, 0, a1, 0, FrameLen),
           NormalizedMapping(s2, 0, s1, 0, FrameLen)>>}

InitConc ==
    /\ mappings \in ConcTables
    /\ bySource = NewBySource(mappings)
    /\ outputs = NewOutputs(mappings)
    /\ lastCall = NoCall
    /\ touched = {}
    /\ pc = [p \in Procs |-> "idle"]
    /\ local = [p \in Procs |-> NoLocal]
    /\ called = [u \in DOMAIN bySource |-> 0]
    /\ reported = [u \in DOMAIN bySource |-> 0]
    /\ NoPush
    /\ NewArtSender({})
    /\ NewSacnSender({})
    /\ NoNet

\* buf.mu.Lock() by goroutine p: it waits while the mutex is held.
CanLock(buf) == buf.mu = "free"

lock(buf, p) == [buf EXCEPT !.mu = p]

\* buf.mu.Unlock().
unlock(buf) == [buf EXCEPT !.mu = "free"]

\* getDirtyOutput unlocking at its end only, not where it returns early.
getDirtyOutputEarlyReturn(u, buf) ==
    LET g == getDirtyOutput(u, buf)
    IN  IF g.ok THEN [g EXCEPT !.buf = unlock(g.buf)] ELSE g

\* getDirtyOutput with its deferred Unlock.
getDirtyOutputUnlock(u, buf) ==
    LET g == getDirtyOutput(u, buf)
    IN  [g EXCEPT !.buf = unlock(g.buf)]

\* Remap up to the loop: the lookup of the source and counter.Add(1).
RemapCall(p, src, srcData) ==
    /\ pc[p] = "idle"
    /\ IF src \notin DOMAIN bySource
       THEN UNCHANGED <<bySource, pc, local, called>>
       ELSE /\ called[src] < MaxCalls
            /\ bySource' = [bySource EXCEPT ![src].counter = @ + 1]
            /\ called' = [called EXCEPT ![src] = @ + 1]
            /\ pc' = [pc EXCEPT ![p] = "remapLock"]
            /\ local' = [local EXCEPT
                            ![p] = [k |-> 1, src |-> src, srcData |-> srcData]]
    /\ UNCHANGED <<mappings, outputs, callVars, reported, otherVars>>

\* The mapping the loop of Remap in p stands at.
CurrentMapping(p) == bySource[local[p].src].mappings[local[p].k]

\* applyMapping: buf.mu.Lock().
RemapLock(p) ==
    /\ pc[p] = "remapLock"
    /\ LET u == CurrentMapping(p).To
       IN  /\ CanLock(outputs[u])
           /\ outputs' = [outputs EXCEPT ![u] = lock(@, p)]
    /\ pc' = [pc EXCEPT ![p] = "remapApply"]
    /\ UNCHANGED <<mappings, bySource, callVars, local, called, reported,
                   otherVars>>

\* applyMapping under the lock, its deferred Unlock, and the loop's step to
\* the next mapping or the return of Remap.
RemapApply(p) ==
    /\ pc[p] = "remapApply"
    /\ LET m == CurrentMapping(p)
           done == local[p].k >= Len(bySource[local[p].src].mappings)
       IN  /\ outputs' = [outputs EXCEPT
                    ![m.To] = unlock(applyMapping(@, m, local[p].srcData))]
           /\ pc' = [pc EXCEPT ![p] = IF done THEN "idle" ELSE "remapLock"]
           /\ local' = [local EXCEPT
                    ![p] = IF done THEN NoLocal
                           ELSE [local[p] EXCEPT !.k = @ + 1]]
    /\ UNCHANGED <<mappings, bySource, callVars, called, reported, otherVars>>

\* GetDirtyOutputs up to the loop; order is the order the range over
\* e.outputs yields.
DirtyCall(p, order) ==
    /\ pc[p] = "idle"
    /\ pc' = [pc EXCEPT ![p] = "dirtyLock"]
    /\ local' = [local EXCEPT
                    ![p] = [k |-> 1, order |-> order, result |-> <<>>]]
    /\ UNCHANGED <<engineVars, callVars, called, reported, otherVars>>

\* getDirtyOutput: buf.mu.Lock().
DirtyLock(p) ==
    /\ pc[p] = "dirtyLock"
    /\ LET u == local[p].order[local[p].k]
       IN  /\ CanLock(outputs[u])
           /\ outputs' = [outputs EXCEPT ![u] = lock(@, p)]
    /\ pc' = [pc EXCEPT ![p] = "dirtyCheck"]
    /\ UNCHANGED <<mappings, bySource, callVars, local, called, reported,
                   otherVars>>

\* getDirtyOutput under the lock, its deferred Unlock, and the loop's step
\* to the next buffer or the return of GetDirtyOutputs.
DirtyCheckStep(p) ==
    /\ pc[p] = "dirtyCheck"
    /\ LET u == local[p].order[local[p].k]
           g == getDirtyOutputUnlock(u, outputs[u])
           res == IF g.ok THEN Append(local[p].result, g.out)
                  ELSE local[p].result
           done == local[p].k >= Len(local[p].order)
       IN  /\ outputs' = [outputs EXCEPT ![u] = g.buf]
           /\ pc' = [pc EXCEPT ![p] = IF done THEN "idle" ELSE "dirtyLock"]
           /\ local' = [local EXCEPT
                    ![p] = IF done THEN NoLocal
                           ELSE [local[p] EXCEPT !.k = @ + 1, !.result = res]]
    /\ UNCHANGED <<mappings, bySource, called, reported, otherVars>>

DirtyCheck(p) ==
    /\ DirtyCheckStep(p)
    /\ UNCHANGED callVars

\* The outputs getDirtyOutput has returned so far, the last one of each
\* universe.
Snapshots(call) == IF call.op = "getDirtyOutput" THEN call.last ELSE <<>>

\* DirtyCheck, the output it takes kept as the last one of its universe.
DirtySnapshot(p) ==
    /\ DirtyCheckStep(p)
    /\ LET u == local[p].order[local[p].k]
           g == getDirtyOutput(u, outputs[u])
           last == Snapshots(lastCall)
       IN  lastCall' =
              IF g.ok
              THEN [op |-> "getDirtyOutput", Universe |-> u,
                    last |-> [v \in DOMAIN last \cup {u} |->
                                 IF v = u THEN g.out.Data ELSE last[v]]]
              ELSE lastCall
    /\ UNCHANGED touched

\* SwapStats up to the loop; order is the order the range over e.bySource
\* yields.
StatsCall(p, order) ==
    /\ pc[p] = "idle"
    /\ pc' = [pc EXCEPT ![p] = "swap"]
    /\ local' = [local EXCEPT
                    ![p] = [k |-> 1, order |-> order, result |-> <<>>]]
    /\ UNCHANGED <<engineVars, callVars, called, reported, otherVars>>

\* What a SwapStats that holds result so far has taken of source u.
Taken(res, u) == IF u \in DOMAIN res THEN res[u] ELSE 0

\* One iteration of the loop of SwapStats, result[u] = entry.counter.Swap(0),
\* and after the last one the return of the map.
StatsSwap(p) ==
    /\ pc[p] = "swap"
    /\ LET u == local[p].order[local[p].k]
           s == swapCounter(bySource[u])
           res == [v \in DOMAIN local[p].result \cup {u} |->
                      IF v = u THEN s.value ELSE local[p].result[v]]
           done == local[p].k >= Len(local[p].order)
       IN  /\ bySource' = [bySource EXCEPT ![u] = s.entry]
           /\ pc' = [pc EXCEPT ![p] = IF done THEN "idle" ELSE "swap"]
           /\ local' = [local EXCEPT
                    ![p] = IF done THEN NoLocal
                           ELSE [local[p] EXCEPT !.k = @ + 1, !.result = res]]
           /\ reported' = IF done
                          THEN [v \in DOMAIN reported |->
                                   reported[v] + Taken(res, v)]
                          ELSE reported
           /\ lastCall' = IF done
                          THEN [op |-> "SwapStats", result |-> res]
                          ELSE lastCall
    /\ UNCHANGED <<mappings, outputs, touched, called, otherVars>>

\* A goroutine's step inside the call it runs.
Continue(p) ==
    \/ RemapLock(p)
    \/ RemapApply(p)
    \/ DirtyLock(p)
    \/ DirtyCheck(p)
    \/ StatsSwap(p)

\* Remap calls of two goroutines and the GetDirtyOutputs calls of a third,
\* interleaved.
NextConc ==
    \/ \E p \in RemapProcs, src \in RemapSources, srcData \in Frames :
          RemapCall(p, src, srcData)
    \/ \E order \in Orders(DOMAIN outputs) : DirtyCall(DirtyProc, order)
    \/ \E p \in RemapProcs : RemapLock(p)
    \/ \E p \in RemapProcs : RemapApply(p)
    \/ DirtyLock(DirtyProc)
    \/ DirtyCheck(DirtyProc)

SpecConc == InitConc /\ [][NextConc]_vars

\* sync.Mutex hands a mutex to a goroutine that waits for it (starvation
\* mode), and the scheduler runs every runnable goroutine: a step that is
\* enabled again and again is taken.
SpecConcFair == SpecConc /\ \A p \in Procs : SF_vars(Continue(p))

\* The calls of SpecConc, each output GetDirtyOutputs takes kept.
NextSnapshot ==
    \/ \E p \in RemapProcs, src \in RemapSources, srcData \in Frames :
          RemapCall(p, src, srcData)
    \/ \E order \in Orders(DOMAIN outputs) : DirtyCall(DirtyProc, order)
    \/ \E p \in RemapProcs : RemapLock(p)
    \/ \E p \in RemapProcs : RemapApply(p)
    \/ DirtyLock(DirtyProc)
    \/ DirtySnapshot(DirtyProc)

SpecSnapshot == InitConc /\ [][NextSnapshot]_vars

\* Remap calls of two goroutines and the SwapStats calls of a third,
\* interleaved.
NextStats ==
    \/ \E p \in RemapProcs, src \in RemapSources, srcData \in Frames :
          RemapCall(p, src, srcData)
    \/ \E order \in Orders(DOMAIN bySource) : StatsCall(StatsProc, order)
    \/ \E p \in RemapProcs : RemapLock(p)
    \/ \E p \in RemapProcs : RemapApply(p)
    \/ StatsSwap(StatsProc)

SpecStats == InitConc /\ [][NextStats]_vars

\* --------------------------------------------------- remap engine (push)

\* NewEngine of the push engine: bySource as in the pull engine, and the
\* state of every destination of the table.
NewPushState(ms) == [u \in {ms[i].To : i \in 1 .. Len(ms)} |-> ZeroFrame]

\* The copy loop of the push Remap, from iteration i on.
RECURSIVE pushCopyChannels(_, _, _, _)
pushCopyChannels(outState, m, srcData, i) ==
    IF i >= m.Count THEN outState
    ELSE LET srcChan == m.FromChan + i
             dstChan == m.ToChan + i
         IN  pushCopyChannels(
                 IF srcChan < FrameLen /\ dstChan < FrameLen
                 THEN [outState EXCEPT ![dstChan] = srcData[srcChan]]
                 ELSE outState,
                 m, srcData, i + 1)

\* The loop of the push Remap over entry.mappings, from the k-th mapping on.
RECURSIVE pushApplyMappings(_, _, _, _)
pushApplyMappings(st, ms, srcData, k) ==
    IF k > Len(ms) THEN st
    ELSE pushApplyMappings(
             [st EXCEPT ![ms[k].To] = pushCopyChannels(@, ms[k], srcData, 0)],
             ms, srcData, k + 1)

\* The affected map of the push Remap listing every universe of the state.
pushAffectedAll(ms) == DOMAIN pushState

\* The keys of the affected map the loop of the push Remap fills.
pushAffected(ms) == {ms[k].To : k \in 1 .. Len(ms)}

\* The result of the push Remap, in the order the range over affected
\* yields.
pushOutputs(st, order) ==
    [i \in 1 .. Len(order) |-> [Universe |-> order[i], Data |-> st[order[i]]]]

InitPushPull ==
    /\ mappings \in Tables
    /\ bySource = NewBySource(mappings)
    /\ outputs = NewOutputs(mappings)
    /\ lastCall = NoCall
    /\ touched = {}
    /\ IdleProcs
    /\ pushBySource = NewBySource(mappings)
    /\ pushState = NewPushState(mappings)
    /\ pushLast = NoCall
    /\ phase = "push"
    /\ NewArtSender({})
    /\ NewSacnSender({})
    /\ NoNet

\* The push Remap; the pull engine gets the same call next.
PushRemap(src, srcData) ==
    /\ phase = "push"
    /\ IF src \notin DOMAIN pushBySource
       THEN /\ pushLast' = [op |-> "Remap", src |-> src, srcData |-> srcData,
                            result |-> <<>>]
            /\ UNCHANGED <<pushBySource, pushState>>
       ELSE /\ pushBySource[src].counter < MaxCount
            /\ pushBySource' = [pushBySource EXCEPT ![src].counter = @ + 1]
            /\ LET ms == pushBySource[src].mappings
                   st == pushApplyMappings(pushState, ms, srcData, 1)
               IN  /\ pushState' = st
                   /\ \E order \in Orders(pushAffected(ms)) :
                         pushLast' = [op |-> "Remap", src |-> src,
                                      srcData |-> srcData,
                                      result |-> pushOutputs(st, order)]
    /\ phase' = "pull"
    /\ UNCHANGED <<engineVars, callVars, procVars, artVars, sacnVars,
                   netVars>>

\* The pull Remap with the arguments the push Remap got.
PullRemap ==
    /\ phase = "pull"
    /\ EngineRemap(pushLast.src, pushLast.srcData)
    /\ phase' = "collect"
    /\ UNCHANGED <<procVars, pushBySource, pushState, pushLast, artVars,
                   sacnVars, netVars>>

\* GetDirtyOutputs right after the pull Remap.
PullGetDirtyOutputs(order) ==
    /\ phase = "collect"
    /\ EngineGetDirtyOutputs(order)
    /\ phase' = "push"
    /\ UNCHANGED <<procVars, pushBySource, pushState, pushLast, artVars,
                   sacnVars, netVars>>

\* SwapStats of the push engine and of the pull engine, between two Remap
\* calls.
SwapStatsBoth ==
    /\ phase = "push"
    /\ pushBySource' = swapCounters(pushBySource).bySource
    /\ EngineSwapStats
    /\ UNCHANGED <<procVars, pushState, pushLast, phase, artVars, sacnVars,
                   netVars>>

NextPushPull ==
    \/ \E src \in RemapSources, srcData \in Frames : PushRemap(src, srcData)
    \/ PullRemap
    \/ \E order \in Orders(DOMAIN outputs) : PullGetDirtyOutputs(order)
    \/ SwapStatsBoth

SpecPushPull == InitPushPull /\ [][NextPushPull]_vars

\* ---------------------------------------------------------------- senders

\* The values of a uint8.
ByteValues == 256

\* Cap on the send calls per universe in the guards.
MaxSends == 258

ArtUniverses == {0, 1}

SacnUniverses == {1, 2}

\* s.sequences[universe]: the zero value when the map has no such key.
sequenceOf(sequences, universe) ==
    IF universe \in DOMAIN sequences THEN sequences[universe] ELSE 0

\* s.sequences[universe] = seq.
setSequence(sequences, universe, seq) ==
    [u \in DOMAIN sequences \cup {universe} |->
        IF u = universe THEN seq ELSE sequences[u]]

\* The Art-Net sequence wrapping to 0 as the sACN one does.
nextArtSequenceNoSkip(seq) == (seq + 1) % ByteValues

\* artnet.Sender.SendDMX: seq++ on a uint8, and 0 skipped.
nextArtSequence(seq) ==
    LET next == (seq + 1) % ByteValues
    IN  IF next = 0 THEN 1 ELSE next

\* The sACN sequence skipping 0 as the Art-Net one does.
nextSacnSequenceSkipZero(seq) ==
    IF (seq + 1) % ByteValues = 0 THEN 1 ELSE (seq + 1) % ByteValues

\* sacn.Sender: seq + 1 on a uint8.
nextSacnSequence(seq) == (seq + 1) % ByteValues

InitArtSender ==
    /\ NoEngine
    /\ IdleProcs
    /\ NoPush
    /\ NewArtSender(ArtUniverses)
    /\ NewSacnSender({})
    /\ NoNet

\* artnet.Sender.SendDMX: the sequence is taken under seqMu, the packet is
\* built with it and written.
ArtSendDMX(universe) ==
    /\ artSent[universe] < MaxSends
    /\ LET seq == nextArtSequence(sequenceOf(artSequences, universe))
       IN  /\ artSequences' = setSequence(artSequences, universe, seq)
           /\ artPacket' = [Universe |-> universe, Sequence |-> seq]
    /\ artSent' = [artSent EXCEPT ![universe] = @ + 1]
    /\ UNCHANGED <<engineVars, callVars, procVars, pushVars, sacnVars,
                   netVars>>

NextArtSender == \E universe \in ArtUniverses : ArtSendDMX(universe)

SpecArtSender == InitArtSender /\ [][NextArtSender]_vars

InitSacnSender ==
    /\ NoEngine
    /\ IdleProcs
    /\ NoPush
    /\ NewArtSender({})
    /\ NewSacnSender(SacnUniverses)
    /\ NoNet

\* What SendDMX and SendDMXUnicast do alike: the packet carries the sequence
\* the map holds, and the map gets the next one.
sacnSend(universe, unicast) ==
    /\ sacnSent[universe] < MaxSends
    /\ LET seq == sequenceOf(sacnSequences, universe)
       IN  /\ sacnSequences' =
                 setSequence(sacnSequences, universe, nextSacnSequence(seq))
           /\ sacnPacket' = [Universe |-> universe, Sequence |-> seq,
                             Unicast |-> unicast]
    /\ sacnSent' = [sacnSent EXCEPT ![universe] = @ + 1]
    /\ UNCHANGED <<engineVars, callVars, procVars, pushVars, artVars,
                   netVars>>

\* sacn.Sender.SendDMX: to the multicast group of the universe.
SacnSendDMX(universe) == sacnSend(universe, FALSE)

\* sacn.Sender.SendDMXUnicast: to one address.
SacnSendDMXUnicast(universe) == sacnSend(universe, TRUE)

NextSacnSender ==
    \/ \E universe \in SacnUniverses : SacnSendDMX(universe)
    \/ \E universe \in SacnUniverses : SacnSendDMXUnicast(universe)

SpecSacnSender == InitSacnSender /\ [][NextSacnSender]_vars

\* -------------------------------------------------------------- discovery

\* The 60 s after which cleanup drops a node, in cleanup intervals of 30 s.
NodeExpiry == 2

\* The last time the clock reaches.
MaxTime == 4

\* PollReplyPacket.PortTypes, SwOut: [4]byte.
ReplyPorts == 4

LocalIP == <<10, 0, 0, 1>>

PeerIPs == {<<10, 0, 0, 5>>, <<10, 0, 0, 6>>}

SourceIPs == PeerIPs \cup {LocalIP}

\* PortTypes of an output port (0x80) and of an input port (0x40).
PortTypeValues == {128, 64}

\* SwOut values: 17 and 1 have the same low nibble.
SwOutValues == {1, 2, 17}

\* The replies handled: NumPortsLo ports, 5 among them, of which the first
\* two vary and the others are unused.
PollReplies ==
    {[NetSwitch |-> 0, SubSwitch |-> 0, Port |-> 6454, NumPortsLo |-> n,
      PortTypes |-> <<t1, t2, 0, 0>>, SwOut |-> <<s1, s2, 0, 0>>] :
        n \in {0, 1, 2, 5}, t1 \in PortTypeValues, t2 \in PortTypeValues,
        s1 \in SwOutValues, s2 \in SwOutValues}

\* artnet.NewUniverse: 7 bits of net, 4 of subnet, 4 of universe.
NewUniverse(net, subnet, universe) ==
    ((net % 128) * 256) + ((subnet % 16) * 16) + (universe % 16)

\* numPorts of HandlePollReply: NumPortsLo, 4 at most.
numPortsOf(pkt) == IF pkt.NumPortsLo > ReplyPorts THEN ReplyPorts
                   ELSE pkt.NumPortsLo

\* Every port taken for an output port.
canOutputAny(portType) == TRUE

\* PortTypes[i]&0x80 != 0: the port can output DMX.
canOutput(portType) == (portType \div 128) % 2 = 1

\* The first loop of HandlePollReply from port i on: the universes of the
\* ports that can output DMX, in port order.
RECURSIVE parseUniverses(_, _, _)
parseUniverses(pkt, i, universes) ==
    IF i > numPortsOf(pkt) THEN universes
    ELSE parseUniverses(pkt, i + 1,
            IF canOutput(pkt.PortTypes[i])
            THEN Append(universes,
                        NewUniverse(pkt.NetSwitch, pkt.SubSwitch, pkt.SwOut[i]))
            ELSE universes)

\* The node's universes replaced by those of the reply.
accumulateOverwrite(existing, universes, k) == universes

\* The longer of the two lists kept.
accumulateKeepLonger(existing, universes, k) ==
    IF Len(universes) > Len(existing) THEN universes ELSE existing

\* The second loop of HandlePollReply from universes[k] on: each universe
\* node.Universes does not hold yet is appended to it.
RECURSIVE accumulate(_, _, _)
accumulate(existing, universes, k) ==
    IF k > Len(universes) THEN existing
    ELSE accumulate(IF \E j \in 1 .. Len(existing) :
                          existing[j] = universes[k]
                    THEN existing
                    ELSE Append(existing, universes[k]),
                    universes, k + 1)

\* LastSeen set only when the node is created.
touchNodeOnCreate(node, exists, t) ==
    IF exists THEN node ELSE [node EXCEPT !.LastSeen = t]

\* node.LastSeen = time.Now().
touchNode(node, exists, t) == [node EXCEPT !.LastSeen = t]

\* Replies of the local IP handled like the others.
isOwnReplyNever(src, local_ip) == FALSE

\* src.IP.Equal(localIP).
isOwnReply(src, local_ip) == src = local_ip

\* d.nodes after HandlePollReply(src, pkt) at time t: nothing for a reply
\* of the local IP; otherwise the node of the IP is created if there is
\* none, its LastSeen is set and the universes of the reply are accumulated.
upsertNode(ns, local_ip, t, src, pkt) ==
    IF isOwnReply(src, local_ip) THEN ns
    ELSE LET exists == src \in DOMAIN ns
             node == IF exists THEN ns[src]
                     ELSE [IP |-> src, Port |-> pkt.Port,
                           Universes |-> <<>>, LastSeen |-> 0]
             seen == touchNode(node, exists, t)
             updated == [seen EXCEPT !.Universes =
                            accumulate(@, parseUniverses(pkt, 1, <<>>), 1)]
         IN  [ip \in DOMAIN ns \cup {src} |->
                 IF ip = src THEN updated ELSE ns[ip]]

\* The universes of the ports of a reply that can output DMX.
DmxUniverses(pkt) ==
    {NewUniverse(pkt.NetSwitch, pkt.SubSwitch, pkt.SwOut[i]) :
        i \in {j \in 1 .. ReplyPorts :
                  j <= pkt.NumPortsLo /\ canOutput(pkt.PortTypes[j])}}

\* Discovery after NewDiscovery and Start.
NewDiscovery ==
    /\ nodes = <<>>
    /\ localIP = LocalIP
    /\ now = 0
    /\ cleanupTick = FALSE
    /\ advertised = <<>>
    /\ mirror = <<>>

InitDiscovery ==
    /\ NoEngine
    /\ IdleProcs
    /\ NoPush
    /\ NewArtSender({})
    /\ NewSacnSender({})
    /\ NewDiscovery
    /\ NoApp
    /\ NoLoops
    /\ wire = <<>>

\* Discovery.HandlePollReply.
HandlePollReply(src, pkt) ==
    /\ nodes' = upsertNode(nodes, localIP, now, src, pkt)
    /\ advertised' =
          [ip \in DOMAIN nodes' |->
              IF ip # src THEN advertised[ip]
              ELSE (IF ip \in DOMAIN nodes THEN advertised[ip] ELSE {})
                   \cup DmxUniverses(pkt)]
    /\ lastCall' = [op |-> "HandlePollReply", src |-> src,
                    exists |-> src \in DOMAIN nodes]
    /\ UNCHANGED <<engineVars, touched, procVars, pushVars, artVars,
                   sacnVars, localIP, now, cleanupTick, mirror, appVars,
                   wire, loopVars>>

\* 30 s pass: cleanupTicker puts a tick in its channel, which holds one.
Tick ==
    /\ now < MaxTime
    /\ now' = now + 1
    /\ cleanupTick' = TRUE
    /\ UNCHANGED <<engineVars, callVars, procVars, pushVars, artVars,
                   sacnVars, nodes, localIP, advertised, mirror, appVars,
                   wire, loopVars>>

\* Nodes dropped from 60 s of silence on.
expiredAtCutoff(node, t) == node.LastSeen <= t - NodeExpiry

\* node.LastSeen.Before(cutoff), cutoff being 60 s before t.
expired(node, t) == node.LastSeen < t - NodeExpiry

\* pollLoop takes the tick and runs Discovery.cleanup; removed are the IPs
\* of its "node timeout" log lines.
cleanup ==
    /\ cleanupTick
    /\ cleanupTick' = FALSE
    /\ nodes' = [ip \in {i \in DOMAIN nodes : ~expired(nodes[i], now)} |->
                    nodes[ip]]
    /\ advertised' = [ip \in DOMAIN nodes' |-> advertised[ip]]
    /\ lastCall' = [op |-> "cleanup",
                    removed |-> DOMAIN nodes \ DOMAIN nodes']
    /\ UNCHANGED <<engineVars, touched, procVars, pushVars, artVars,
                   sacnVars, localIP, now, mirror, appVars, wire,
                   loopVars>>

\* Every node of the map returned.
nodesForUniverseAll(ns, universe, order, k) ==
    [i \in 1 .. Len(order) |-> ns[order[i]]]

\* The loop of GetNodesForUniverse from the k-th node of the map on, the
\* map being ranged over in this order: the nodes that hold the universe.
RECURSIVE nodesForUniverse(_, _, _, _)
nodesForUniverse(ns, universe, order, k) ==
    IF k > Len(order) THEN <<>>
    ELSE LET node == ns[order[k]]
             rest == nodesForUniverse(ns, universe, order, k + 1)
         IN  IF \E j \in 1 .. Len(node.Universes) :
                    node.Universes[j] = universe
             THEN <<node>> \o rest
             ELSE rest

\* The universes asked for: those the replies report and one they do not.
QueryUniverses == {1, 2, 3}

\* Discovery.GetNodesForUniverse.
GetNodesForUniverse(universe, order) ==
    /\ lastCall' = [op |-> "GetNodesForUniverse", universe |-> universe,
                    result |-> nodesForUniverse(nodes, universe, order, 1)]
    /\ UNCHANGED <<engineVars, touched, procVars, pushVars, artVars,
                   sacnVars, netVars>>

NextDiscovery ==
    \/ \E src \in SourceIPs : \E pkt \in PollReplies :
          HandlePollReply(src, pkt)
    \/ Tick
    \/ cleanup
    \/ \E universe \in QueryUniverses : \E order \in Orders(DOMAIN nodes) :
          GetNodesForUniverse(universe, order)

SpecDiscovery == InitDiscovery /\ [][NextDiscovery]_vars

\* Two Discovery instances that get two replies of one IP, the second
\* instance in the other order.
InitMerge ==
    /\ mappings = <<>>
    /\ bySource = <<>>
    /\ outputs = <<>>
    /\ touched = {}
    /\ IdleProcs
    /\ NoPush
    /\ NewArtSender({})
    /\ NewSacnSender({})
    /\ nodes = <<>>
    /\ localIP = LocalIP
    /\ now = 0
    /\ cleanupTick = FALSE
    /\ advertised = <<>>
    /\ mirror = <<>>
    /\ NoApp
    /\ NoLoops
    /\ wire = <<>>
    /\ \E src \in SourceIPs : \E r1, r2 \in PollReplies :
          lastCall = [op |-> "replies", src |-> src, first |-> r1,
                      second |-> r2]

\* HandlePollReply of the first reply on the one instance and of the second
\* reply on the other.
MergeFirst ==
    /\ lastCall.op = "replies"
    /\ nodes' = upsertNode(nodes, localIP, now, lastCall.src, lastCall.first)
    /\ mirror' = upsertNode(mirror, localIP, now, lastCall.src,
                            lastCall.second)
    /\ lastCall' = [lastCall EXCEPT !.op = "first"]
    /\ UNCHANGED <<engineVars, touched, procVars, pushVars, artVars,
                   sacnVars, localIP, now, cleanupTick, advertised, appVars,
                   wire, loopVars>>

\* HandlePollReply of the remaining reply on each instance.
MergeSecond ==
    /\ lastCall.op = "first"
    /\ nodes' = upsertNode(nodes, localIP, now, lastCall.src, lastCall.second)
    /\ mirror' = upsertNode(mirror, localIP, now, lastCall.src,
                            lastCall.first)
    /\ lastCall' = [lastCall EXCEPT !.op = "both"]
    /\ UNCHANGED <<engineVars, touched, procVars, pushVars, artVars,
                   sacnVars, localIP, now, cleanupTick, advertised, appVars,
                   wire, loopVars>>

NextMerge == MergeFirst \/ MergeSecond

SpecMerge == InitMerge /\ [][NextMerge]_vars

\* ------------------------------------------------------------- dispatcher

\* Cap, per universe, on the packets sent before a sendOutputs call.
MaxDispatched == 1

\* artnet.Port and sacn.Port.
ArtNetPort == 6454

SacnPort == 5568

UDPAddr(ip, port) == [IP |-> ip, Port |-> port]

\* A target address as the configuration gives it: a host and, or not
\* (port 0 here), a port.
TargetAddress(host, port) == [host |-> host, port |-> port]

\* parseTargetAddr: the port of the address, or the Art-Net port.
parseTargetAddr(a) ==
    UDPAddr(a.host, IF a.port = 0 THEN ArtNetPort ELSE a.port)

\* sacn.MulticastAddr.
MulticastAddr(universe) ==
    UDPAddr(<<239, 255, universe \div 256, universe % 256>>, SacnPort)

ArtTarget ==
    [Universe |-> Universe("artnet", 1),
     Address |-> TargetAddress(<<10, 0, 1, 1>>, 0)]

SacnTarget ==
    [Universe |-> Universe("sacn", 1),
     Address |-> TargetAddress(<<10, 0, 2, 1>>, SacnPort)]

\* The target lists of the configurations tried.
TargetConfigs == {<<>>, <<ArtTarget>>, <<SacnTarget>>,
                  <<ArtTarget, SacnTarget>>}

\* The -artnet-broadcast lists tried.
BroadcastConfigs ==
    {<<>>, <<UDPAddr(<<10, 255, 255, 255>>, ArtNetPort),
            UDPAddr(<<192, 168, 1, 255>>, ArtNetPort)>>}

\* The target loop of main from the k-th target on: Art-Net targets are
\* entered under their universe, the others are passed over.
RECURSIVE parseTargets(_, _, _)
parseTargets(cfg, k, tg) ==
    IF k > Len(cfg) THEN tg
    ELSE parseTargets(cfg, k + 1,
            IF cfg[k].Universe.Protocol # "artnet" THEN tg
            ELSE [u \in DOMAIN tg \cup {cfg[k].Universe.Number} |->
                     IF u = cfg[k].Universe.Number
                     THEN parseTargetAddr(cfg[k].Address)
                     ELSE tg[u]])

\* The destination universes of the outputs handed to sendOutputs.
DispatchArtUniverses == {1, 2}

DispatchSacnUniverses == {1}

\* remap.Output.
Output(proto, universe, data) ==
    [Protocol |-> proto, Universe |-> universe, Data |-> data]

\* The frame of an output: the universes of a protocol carry different
\* frames.
DispatchFrame(universe) == [i \in Chans |-> (100 * universe + i) % 256]

DispatchOutputs ==
    {Output("artnet", u, DispatchFrame(u)) : u \in DispatchArtUniverses}
    \cup {Output("sacn", u, DispatchFrame(u + 1)) :
             u \in DispatchSacnUniverses}

\* What Remap hands to sendOutputs: one or two outputs, of different
\* universes.
DispatchOutputLists ==
    {<<out>> : out \in DispatchOutputs}
    \cup {outs \in DispatchOutputs \X DispatchOutputs :
             <<outs[1].Protocol, outs[1].Universe>> #
             <<outs[2].Protocol, outs[2].Universe>>}

\* The replies handled while dispatching: no port, or one output port of
\* universe 1 or 2.
DispatchReplies ==
    {pkt \in PollReplies :
        /\ pkt.NumPortsLo \in {0, 1}
        /\ pkt.PortTypes = <<128, 64, 0, 0>>
        /\ pkt.SwOut[1] \in {1, 2}
        /\ pkt.SwOut[2] = 1}

\* What a sendOutputs call has done so far: the sequences of the two
\* senders and the packets written.
Sending(art, sacn, sent) == [art |-> art, sacn |-> sacn, sent |-> sent]

\* artSender.SendDMX(addr, out.Universe, out.Data[:]).
sendArtNet(st, addr, out) ==
    LET seq == nextArtSequence(sequenceOf(st.art, out.Universe))
    IN  Sending(setSequence(st.art, out.Universe, seq), st.sacn,
                Append(st.sent,
                       [Protocol |-> "artnet", Dst |-> addr,
                        Universe |-> out.Universe, Sequence |-> seq,
                        Data |-> out.Data]))

\* SendDMX to each of the addresses, from the k-th on.
RECURSIVE sendArtNetEach(_, _, _, _)
sendArtNetEach(st, addrs, out, k) ==
    IF k > Len(addrs) THEN st
    ELSE sendArtNetEach(sendArtNet(st, addrs[k], out), addrs, out, k + 1)

\* sacnSender.SendDMX(uint16(out.Universe), out.Data[:]): to the multicast
\* group of the universe.
sendSacn(st, out) ==
    LET seq == sequenceOf(st.sacn, out.Universe)
    IN  Sending(st.art,
                setSequence(st.sacn, out.Universe, nextSacnSequence(seq)),
                Append(st.sent,
                       [Protocol |-> "sacn",
                        Dst |-> MulticastAddr(out.Universe),
                        Universe |-> out.Universe, Sequence |-> seq,
                        Data |-> out.Data]))

\* The addresses of discovered nodes.
nodeAddrs(found) ==
    [i \in 1 .. Len(found) |-> UDPAddr(found[i].IP, found[i].Port)]

\* The broadcast addresses added to the target.
artDestinationsAlsoBroadcast(ns, tg, bc, universe, order) ==
    LET found == nodesForUniverse(ns, universe, order, 1)
    IN  IF Len(found) > 0 THEN nodeAddrs(found)
        ELSE IF universe \in DOMAIN tg THEN <<tg[universe]>> \o bc
        ELSE bc

\* The Art-Net branch of sendOutputs: the nodes discovered for the
\* universe, or else its target, or else the broadcast addresses, which may
\* be none.
artDestinations(ns, tg, bc, universe, order) ==
    LET found == nodesForUniverse(ns, universe, order, 1)
    IN  IF Len(found) > 0 THEN nodeAddrs(found)
        ELSE IF universe \in DOMAIN tg THEN <<tg[universe]>>
        ELSE bc

\* The body of the loop of sendOutputs.
sendOutput(st, out, order) ==
    IF out.Protocol = "sacn" THEN sendSacn(st, out)
    ELSE sendArtNetEach(st,
            artDestinations(nodes, targets, broadcasts, out.Universe, order),
            out, 1)

\* The loop of sendOutputs from the k-th output on.
RECURSIVE sendOutputsFrom(_, _, _, _)
sendOutputsFrom(st, outs, k, order) ==
    IF k > Len(outs) THEN st
    ELSE sendOutputsFrom(sendOutput(st, outs[k], order), outs, k + 1, order)

\* The packets of a protocol among those sent, in order.
sentOf(sent, proto) == SelectSeq(sent, LAMBDA pkt : pkt.Protocol = proto)

\* The packets sent for a universe of a protocol.
sentCount(sent, proto, universe) ==
    Len(SelectSeq(sent, LAMBDA pkt :
            pkt.Protocol = proto /\ pkt.Universe = universe))

InitDispatch ==
    /\ NoEngine
    /\ IdleProcs
    /\ NoPush
    /\ NewArtSender(DispatchArtUniverses)
    /\ NewSacnSender(DispatchSacnUniverses)
    /\ NewDiscovery
    /\ cfgTargets \in TargetConfigs
    /\ targets = parseTargets(cfgTargets, 1, <<>>)
    /\ broadcasts \in BroadcastConfigs
    /\ wire = <<>>
    /\ NoLoops

\* App.sendOutputs, the map of nodes being ranged over in this order.
sendOutputs(outs, order) ==
    /\ \A i \in 1 .. Len(outs) :
          IF outs[i].Protocol = "sacn"
          THEN sacnSent[outs[i].Universe] < MaxDispatched
          ELSE artSent[outs[i].Universe] < MaxDispatched
    /\ LET done == sendOutputsFrom(Sending(artSequences, sacnSequences, <<>>),
                                   outs, 1, order)
           art == sentOf(done.sent, "artnet")
           sacn == sentOf(done.sent, "sacn")
       IN  /\ artSequences' = done.art
           /\ sacnSequences' = done.sacn
           /\ artSent' = [u \in DOMAIN artSent |->
                             artSent[u] + sentCount(done.sent, "artnet", u)]
           /\ sacnSent' = [u \in DOMAIN sacnSent |->
                              sacnSent[u] + sentCount(done.sent, "sacn", u)]
           /\ artPacket' =
                 IF art = <<>> THEN artPacket
                 ELSE [Universe |-> art[Len(art)].Universe,
                       Sequence |-> art[Len(art)].Sequence]
           /\ sacnPacket' =
                 IF sacn = <<>> THEN sacnPacket
                 ELSE [Universe |-> sacn[Len(sacn)].Universe,
                       Sequence |-> sacn[Len(sacn)].Sequence,
                       Unicast |-> FALSE]
           /\ lastCall' = [op |-> "sendOutputs", outputs |-> outs,
                           sent |-> done.sent]
    /\ UNCHANGED <<engineVars, touched, procVars, pushVars, netVars>>

NextDispatch ==
    \/ \E src \in SourceIPs : \E pkt \in DispatchReplies :
          HandlePollReply(src, pkt)
    \/ \E outs \in DispatchOutputLists : \E order \in Orders(DOMAIN nodes) :
          sendOutputs(outs, order)

SpecDispatch == InitDispatch /\ [][NextDispatch]_vars

\* ------------------------------------------------ poll and receive loops

\* The last tick the 10 s ticker fires.
MaxTicks == 3

\* Cap on the reads that return per receiver.
MaxReads == 1

\* The 30 s of the cleanup ticker, in ticks of the 10 s ticker.
CleanupEvery == 3

\* Discovery.pollTargets.
PollTargets == <<UDPAddr(<<10, 0, 1, 1>>, ArtNetPort),
                 UDPAddr(<<10, 255, 255, 255>>, ArtNetPort)>>

\* The receivers main starts and stops.
Receivers == {"artnet", "sacn"}

\* The goroutines: pollLoop, the receive loops, and main.
LoopProcs == Receivers \cup {"discovery", "main"}

\* pollLoop starting at its select.
pollLoopEntrySelect == "select"

\* Where pollLoop starts: at the sendPolls call before the tickers.
pollLoopEntry == "polls"

InitLoops ==
    /\ NoEngine
    /\ pc = [p \in LoopProcs |->
                IF p = "discovery" THEN pollLoopEntry
                ELSE IF p = "main" THEN "running" ELSE "check"]
    /\ local = [p \in LoopProcs |-> IF p = "discovery" THEN [k |-> 1]
                                     ELSE NoLocal]
    /\ called = <<>>
    /\ reported = <<>>
    /\ NoPush
    /\ NewArtSender({})
    /\ NewSacnSender({})
    /\ NewDiscovery
    /\ NoApp
    /\ wire = <<>>
    /\ doneCh = {}
    /\ connClosed = {}
    /\ pollTick = FALSE
    /\ ticks = 0
    /\ polls = [rounds |-> 0, round |-> <<>>, failed |-> FALSE]
    /\ received = [r \in Receivers |-> 0]

\* What is left unchanged by a step of one of the loops.
loopFrame == UNCHANGED <<engineVars, callVars, called, reported, pushVars,
                         artVars, sacnVars, discVars, appVars, wire>>

\* sendPolls left at the first send error.
nextPollTargetStopOnError(k, err) ==
    IF err THEN Len(PollTargets) + 1 ELSE k + 1

\* The loop of sendPolls after SendPoll to the k-th target: an error is
\* logged, and the next target follows either way.
nextPollTarget(k, err) == k + 1

\* sendPolls: SendPoll to the target the loop stands at; the UDP write
\* fails or not.
SendPoll(err) ==
    /\ pc["discovery"] = "polls"
    /\ local["discovery"].k <= Len(PollTargets)
    /\ polls' = [polls EXCEPT
                    !.round = Append(@, [target |->
                                            PollTargets[local["discovery"].k],
                                         err |-> err]),
                    !.failed = @ \/ err]
    /\ local' = [local EXCEPT !["discovery"].k = nextPollTarget(@, err)]
    /\ UNCHANGED <<pc, doneCh, connClosed, pollTick, ticks, received>>
    /\ loopFrame

\* sendPolls returns: pollLoop is at its select.
SendPollsReturn ==
    /\ pc["discovery"] = "polls"
    /\ local["discovery"].k > Len(PollTargets)
    /\ polls' = [polls EXCEPT !.rounds = @ + 1]
    /\ pc' = [pc EXCEPT !["discovery"] = "select"]
    /\ UNCHANGED <<local, doneCh, connClosed, pollTick, ticks, received>>
    /\ loopFrame

\* The done case never ready.
doneObservedNever(owner) == FALSE

\* case <-done: the channel is closed.
doneObserved(owner) == owner \in doneCh

\* select takes case <-d.done: pollLoop returns, and its deferred calls stop
\* the tickers.
SelectDone ==
    /\ pc["discovery"] = "select"
    /\ doneObserved("discovery")
    /\ pc' = [pc EXCEPT !["discovery"] = "returned"]
    /\ UNCHANGED <<local, loopVars>>
    /\ loopFrame

\* select takes case <-ticker.C: sendPolls starts.
SelectPoll ==
    /\ pc["discovery"] = "select"
    /\ pollTick
    /\ pollTick' = FALSE
    /\ pc' = [pc EXCEPT !["discovery"] = "polls"]
    /\ local' = [local EXCEPT !["discovery"].k = 1]
    /\ polls' = [polls EXCEPT !.round = <<>>]
    /\ UNCHANGED <<doneCh, connClosed, ticks, received>>
    /\ loopFrame

\* select takes case <-cleanupTicker.C: cleanup runs.
SelectCleanup ==
    /\ pc["discovery"] = "select"
    /\ cleanup

\* 10 s pass while pollLoop waits in its select with no case ready: the
\* ticker puts a tick in its channel, and so does, every 30 s, the cleanup
\* ticker.
LoopTick ==
    /\ pc["discovery"] = "select"
    /\ ~pollTick /\ ~cleanupTick /\ ~doneObserved("discovery")
    /\ ticks < MaxTicks
    /\ ticks' = ticks + 1
    /\ pollTick' = TRUE
    /\ cleanupTick' = ((ticks + 1) % CleanupEvery = 0)
    /\ now' = (ticks + 1) \div CleanupEvery
    /\ UNCHANGED <<engineVars, callVars, procVars, pushVars, artVars,
                   sacnVars, nodes, localIP, advertised, mirror, appVars,
                   wire, doneCh, connClosed, polls, received>>

\* The select at the top of receiveLoop: return if done is closed, go on to
\* read otherwise.
ReceiveCheck(r) ==
    /\ pc[r] = "check"
    /\ pc' = [pc EXCEPT ![r] = IF doneObserved(r) THEN "returned" ELSE "read"]
    /\ UNCHANGED <<local, loopVars>>
    /\ loopFrame

\* The read returns a packet, which handlePacket takes, and the loop goes
\* round.
ReceivePacket(r) ==
    /\ pc[r] = "read"
    /\ r \notin connClosed
    /\ received[r] < MaxReads
    /\ received' = [received EXCEPT ![r] = @ + 1]
    /\ pc' = [pc EXCEPT ![r] = "check"]
    /\ UNCHANGED <<local, doneCh, connClosed, pollTick, ticks, polls>>
    /\ loopFrame

\* The read returns an error: always when the socket is closed, possibly
\* when it is not.
ReceiveError(r) ==
    /\ pc[r] = "read"
    /\ r \in connClosed \/ received[r] < MaxReads
    /\ received' = [received EXCEPT
                       ![r] = IF r \in connClosed THEN @ ELSE @ + 1]
    /\ pc' = [pc EXCEPT ![r] = "error"]
    /\ UNCHANGED <<local, doneCh, connClosed, pollTick, ticks, polls>>
    /\ loopFrame

\* The select after a read error: return if done is closed, log and
\* continue otherwise.
ReceiveAfterError(r) ==
    /\ pc[r] = "error"
    /\ pc' = [pc EXCEPT ![r] = IF doneObserved(r) THEN "returned"
                               ELSE "check"]
    /\ UNCHANGED <<local, loopVars>>
    /\ loopFrame

\* What main stops, in order, and how: Receiver.Stop closes done and then
\* the socket, Discovery.Stop closes done.
ShutdownSteps == <<"close artnet done", "close artnet conn",
                   "close sacn done", "close sacn conn",
                   "close discovery done", "stopped">>

\* main, after the signal: the next step of the shutdown.
Shutdown(i) ==
    /\ pc["main"] = (IF i = 1 THEN "running" ELSE ShutdownSteps[i - 1])
    /\ pc' = [pc EXCEPT !["main"] = ShutdownSteps[i]]
    /\ doneCh' = doneCh \cup (CASE i = 1 -> {"artnet"}
                                 [] i = 3 -> {"sacn"}
                                 [] i = 5 -> {"discovery"}
                                 [] OTHER -> {})
    /\ connClosed' = connClosed \cup (CASE i = 2 -> {"artnet"}
                                         [] i = 4 -> {"sacn"}
                                         [] OTHER -> {})
    /\ UNCHANGED <<local, pollTick, ticks, polls, received>>
    /\ loopFrame

\* A step of pollLoop.
PollLoopStep ==
    \/ \E err \in BOOLEAN : SendPoll(err)
    \/ SendPollsReturn
    \/ SelectDone
    \/ SelectPoll
    \/ SelectCleanup

\* A step of the receive loop of a receiver.
ReceiveLoopStep(r) ==
    \/ ReceiveCheck(r)
    \/ ReceivePacket(r)
    \/ ReceiveError(r)
    \/ ReceiveAfterError(r)

NextLoops ==
    \/ PollLoopStep
    \/ LoopTick
    \/ \E r \in Receivers : ReceiveLoopStep(r)
    \/ \E i \in 1 .. 5 : Shutdown(i)

SpecLoops == InitLoops /\ [][NextLoops]_vars

\* The goroutines are scheduled: a loop that can take a step takes one.
SpecLoopsFair ==
    /\ SpecLoops
    /\ WF_vars(PollLoopStep)
    /\ \A r \in Receivers : WF_vars(ReceiveLoopStep(r))

\* ----------------------------------------------------- concurrent senders

\* Cap on the SendDMX calls per sender and universe in the guards.
MaxWrites == 2

\* The receive tasks: each runs sendOutputs on what its Remap returned, and
\* so SendDMX of either sender.
SendProcs == RemapProcs

InitSendConc ==
    /\ NoEngine
    /\ IdleProcs
    /\ NoPush
    /\ NewArtSender(ArtUniverses)
    /\ NewSacnSender(SacnUniverses)
    /\ NoDiscovery
    /\ NoApp
    /\ NoLoops
    /\ wire = [artnet |-> <<>>, sacn |-> <<>>]

\* artnet.Sender.SendDMX up to the Unlock: under seqMu the sequence of the
\* universe is read, incremented past 0 and stored; the goroutine keeps it
\* in seq.
ArtSendDMXSeq(p, universe) ==
    /\ pc[p] = "idle"
    /\ artSent[universe] < MaxWrites
    /\ LET seq == nextArtSequence(sequenceOf(artSequences, universe))
       IN  /\ artSequences' = setSequence(artSequences, universe, seq)
           /\ local' = [local EXCEPT ![p] =
                 [proto |-> "artnet", universe |-> universe, seq |-> seq]]
    /\ artSent' = [artSent EXCEPT ![universe] = @ + 1]
    /\ pc' = [pc EXCEPT ![p] = "write"]
    /\ UNCHANGED <<engineVars, callVars, called, reported, pushVars,
                   artPacket, sacnVars, netVars>>

\* sacn.Sender.SendDMX up to the Unlock: under seqMu the sequence of the
\* universe is read into seq and the next one is stored.
SacnSendDMXSeq(p, universe) ==
    /\ pc[p] = "idle"
    /\ sacnSent[universe] < MaxWrites
    /\ LET seq == sequenceOf(sacnSequences, universe)
       IN  /\ sacnSequences' =
                 setSequence(sacnSequences, universe, nextSacnSequence(seq))
           /\ local' = [local EXCEPT ![p] =
                 [proto |-> "sacn", universe |-> universe, seq |-> seq]]
    /\ sacnSent' = [sacnSent EXCEPT ![universe] = @ + 1]
    /\ pc' = [pc EXCEPT ![p] = "write"]
    /\ UNCHANGED <<engineVars, callVars, called, reported, pushVars,
                   sacnPacket, artVars, netVars>>

\* The rest of artnet.Sender.SendDMX, after the Unlock: the packet is built
\* with seq and written to the socket.
ArtSendDMXWrite(p) ==
    /\ pc[p] = "write"
    /\ local[p].proto = "artnet"
    /\ LET pkt == [Universe |-> local[p].universe, Sequence |-> local[p].seq]
       IN  /\ artPacket' = pkt
           /\ wire' = [wire EXCEPT !.artnet = Append(@, pkt)]
    /\ pc' = [pc EXCEPT ![p] = "idle"]
    /\ local' = [local EXCEPT ![p] = NoLocal]
    /\ UNCHANGED <<engineVars, callVars, called, reported, pushVars,
                   artSequences, artSent, sacnVars, discVars, appVars,
                   loopVars>>

\* The rest of sacn.Sender.SendDMX, after the Unlock.
SacnSendDMXWrite(p) ==
    /\ pc[p] = "write"
    /\ local[p].proto = "sacn"
    /\ LET pkt == [Universe |-> local[p].universe, Sequence |-> local[p].seq,
                   Unicast |-> FALSE]
       IN  /\ sacnPacket' = pkt
           /\ wire' = [wire EXCEPT !.sacn = Append(@, pkt)]
    /\ pc' = [pc EXCEPT ![p] = "idle"]
    /\ local' = [local EXCEPT ![p] = NoLocal]
    /\ UNCHANGED <<engineVars, callVars, called, reported, pushVars,
                   sacnSequences, sacnSent, artVars, discVars, appVars,
                   loopVars>>

NextSendConc ==
    \/ \E p \in SendProcs : \E universe \in ArtUniverses :
          ArtSendDMXSeq(p, universe)
    \/ \E p \in SendProcs : \E universe \in SacnUniverses :
          SacnSendDMXSeq(p, universe)
    \/ \E p \in SendProcs : ArtSendDMXWrite(p)
    \/ \E p \in SendProcs : SacnSendDMXWrite(p)

SpecSendConc == InitSendConc /\ [][NextSendConc]_vars

\* ---------------------------------------------------------- Art-Net codec

\* Data lengths from 0 to MaxShort are tried, next to those around 512.
MaxShort == 3

\* Lengths up to MaxOver above a limit are tried.
MaxOver == 2

\* The size of a DMX frame and the clamp of the ArtDmx length.
MaxDmxLen == 512

\* The bytes of an ArtDmx packet before its data.
DmxHeaderLen == 18

\* The length parsePollPacket asks for.
PollMinLen == 14

\* The length parsePollReplyPacket asks for.
PollReplyMinLen == 207

\* The highest offset parsePollReplyPacket reads by index (Status2).
PollReplyLastIndex == 213

OpPoll == 8192

OpPollReply == 8448

OpDmx == 20480

ProtocolVersion == 14

\* "Art-Net" and a zero byte.
ArtNetID == <<65, 114, 116, 45, 78, 101, 116, 0>>

ErrInvalidHeader == "invalid ArtNet header"

ErrPacketTooShort == "packet too short"

\* The nil error.
Nil == "nil"

\* The nil packet.
NilPacket == [nil |-> TRUE]

Min(a, b) == IF a < b THEN a ELSE b

\* n zero bytes.
Zeros(n) == [i \in 1 .. n |-> 0]

\* b[lo:hi], offsets counted from 0.
Slice(b, lo, hi) == SubSeq(b, lo + 1, hi)

\* b[i], the offset counted from 0.
At(b, i) == b[i + 1]

\* binary.LittleEndian.PutUint16 and binary.BigEndian.PutUint16.
PutLE16(v) == <<v % 256, (v \div 256) % 256>>

PutBE16(v) == <<(v \div 256) % 256, v % 256>>

\* binary.LittleEndian.Uint16 and binary.BigEndian.Uint16 of b[i:i+2].
LE16(b, i) == At(b, i) + 256 * At(b, i + 1)

BE16(b, i) == 256 * At(b, i) + At(b, i + 1)

\* copy(dst, src) into a zeroed array of n bytes.
CopyInto(n, src) ==
    [i \in 1 .. n |-> IF i <= Len(src) THEN src[i] ELSE 0]

\* A Go slice given to the codec: its len(data) bytes, and the bytes of its
\* backing array between its length and its capacity.
GoSlice(bytes, spare) == [bytes |-> bytes, spare |-> spare]

\* BuildDMXPacket: "Length must be even".
evenDataLen(dataLen) == IF dataLen % 2 # 0 THEN dataLen + 1 ELSE dataLen

\* BuildDMXPacket. data[:dataLen] reaches into the capacity of the slice
\* when dataLen was rounded up, and panics when the capacity ends at the
\* length.
BuildDMXPacket(universe, sequence, data) ==
    LET dataLen == evenDataLen(Min(Len(data.bytes), MaxDmxLen))
    IN  IF dataLen > Len(data.bytes) + Len(data.spare)
        THEN [panic |-> TRUE, buf |-> <<>>]
        ELSE [panic |-> FALSE,
              buf |-> ArtNetID \o PutLE16(OpDmx) \o PutBE16(ProtocolVersion)
                      \o <<sequence, 0>> \o PutLE16(universe)
                      \o PutBE16(dataLen)
                      \o SubSeq(data.bytes \o data.spare, 1, dataLen)]

\* The result of ParsePacket: it returns, or it panics.
Parsed(opCode, pkt, err) ==
    [panic |-> FALSE, opCode |-> opCode, pkt |-> pkt, err |-> err]

ParsePanic ==
    [panic |-> TRUE, opCode |-> 0, pkt |-> NilPacket, err |-> Nil]

\* The data clamp of parseDMXPacket.
dmxDataLen(length) == Min(length, MaxDmxLen)

\* parseDMXPacket: the data is copied if all of it is there, and the packet
\* is returned with no error either way.
parseDMXPacket(data) ==
    IF Len(data) < DmxHeaderLen
    THEN Parsed(OpDmx, NilPacket, ErrPacketTooShort)
    ELSE LET dataLen == dmxDataLen(BE16(data, 16))
         IN  Parsed(OpDmx,
                    [ProtocolVersion |-> BE16(data, 10),
                     Sequence |-> At(data, 12),
                     Physical |-> At(data, 13),
                     Universe |-> LE16(data, 14),
                     Length |-> BE16(data, 16),
                     Data |-> IF Len(data) >= DmxHeaderLen + dataLen
                              THEN CopyInto(MaxDmxLen,
                                            Slice(data, DmxHeaderLen,
                                                  DmxHeaderLen + dataLen))
                              ELSE Zeros(MaxDmxLen)],
                    Nil)

parsePollPacket(data) ==
    IF Len(data) < PollMinLen
    THEN Parsed(OpPoll, NilPacket, ErrPacketTooShort)
    ELSE Parsed(OpPoll,
                [ProtocolVersion |-> BE16(data, 10),
                 Flags |-> At(data, 12),
                 DiagPriority |-> At(data, 13)],
                Nil)

\* parsePollReplyPacket: the length is checked against 207, and data[212]
\* and data[213] are read, which panics on a shorter packet.
parsePollReplyPacket(data) ==
    IF Len(data) < PollReplyMinLen
    THEN Parsed(OpPollReply, NilPacket, ErrPacketTooShort)
    ELSE IF Len(data) <= PollReplyLastIndex
    THEN ParsePanic
    ELSE Parsed(OpPollReply,
                [IPAddress |-> Slice(data, 10, 14),
                 Port |-> LE16(data, 14),
                 VersionInfo |-> BE16(data, 16),
                 NetSwitch |-> At(data, 18),
                 SubSwitch |-> At(data, 19),
                 OemHi |-> At(data, 20),
                 Oem |-> At(data, 21),
                 UbeaVersion |-> At(data, 22),
                 Status1 |-> At(data, 23),
                 EstaMan |-> LE16(data, 24),
                 ShortName |-> Slice(data, 26, 44),
                 LongName |-> Slice(data, 44, 108),
                 NodeReport |-> Slice(data, 108, 172),
                 NumPortsHi |-> At(data, 172),
                 NumPortsLo |-> At(data, 173),
                 PortTypes |-> Slice(data, 174, 178),
                 GoodInput |-> Slice(data, 178, 182),
                 GoodOutput |-> Slice(data, 182, 186),
                 SwIn |-> Slice(data, 186, 190),
                 SwOut |-> Slice(data, 190, 194),
                 Style |-> At(data, 200),
                 MAC |-> Slice(data, 201, 207),
                 BindIP |-> Slice(data, 207, 211),
                 BindIndex |-> At(data, 212),
                 Status2 |-> At(data, 213)],
                Nil)

ParsePacket(data) ==
    IF Len(data) < 10
    THEN Parsed(0, NilPacket, ErrPacketTooShort)
    ELSE IF Slice(data, 0, 8) # ArtNetID
    THEN Parsed(0, NilPacket, ErrInvalidHeader)
    ELSE LET opCode == LE16(data, 8)
         IN  CASE opCode = OpDmx -> parseDMXPacket(data)
               [] opCode = OpPoll -> parsePollPacket(data)
               [] opCode = OpPollReply -> parsePollReplyPacket(data)
               [] OTHER -> Parsed(opCode, NilPacket, Nil)

\* Receiver.handlePacket: the call of the handler it makes, if any.
NoDelivery == [handler |-> "none", pkt |-> NilPacket]

delivery(parsed) ==
    IF parsed.panic \/ parsed.err # Nil
    THEN NoDelivery
    ELSE CASE parsed.opCode = OpDmx ->
                 [handler |-> "HandleDMX", pkt |-> parsed.pkt]
           [] parsed.opCode = OpPoll ->
                 [handler |-> "HandlePoll", pkt |-> parsed.pkt]
           [] parsed.opCode = OpPollReply ->
                 [handler |-> "HandlePollReply", pkt |-> parsed.pkt]
           [] OTHER -> NoDelivery

\* The universes, sequence numbers and data the codec is tried with.
CodecUniverses == {0, 258, 32767}

CodecSequences == {1, 255}

DataLengths ==
    (0 .. MaxShort) \cup ((MaxDmxLen - 2) .. (MaxDmxLen + MaxOver))

\* n bytes, none of them zero.
DataBytes(n) == [i \in 1 .. n |-> 1 + (i % 255)]

CodecData ==
    {GoSlice(DataBytes(n), spare) : n \in DataLengths,
                                    spare \in {<<>>, <<0>>, <<7>>}}

\* An ArtDmx packet of n bytes whose length field is length, and the packets
\* of an opcode and a length.
dmxDatagram(length, n) ==
    SubSeq(ArtNetID \o PutLE16(OpDmx) \o PutBE16(ProtocolVersion)
           \o <<1, 0>> \o PutLE16(1) \o PutBE16(length)
           \o DataBytes(n), 1, n)

opDatagram(opCode, n) ==
    SubSeq(ArtNetID \o PutLE16(opCode) \o DataBytes(n), 1, n)

\* The datagrams that arrive: ArtDmx cut short or not, ArtPollReply and
\* ArtPoll around their least lengths, an opcode not known, a header that is
\* not Art-Net's, and packets of less than an opcode.
ArtDatagrams ==
    {dmxDatagram(length, n) :
        length \in {2, MaxDmxLen, MaxDmxLen + MaxOver},
        n \in (DmxHeaderLen - 1) .. (DmxHeaderLen + MaxOver)}
    \cup {dmxDatagram(MaxDmxLen, DmxHeaderLen + MaxDmxLen - k) :
            k \in 0 .. MaxOver}
    \cup {opDatagram(OpPollReply, n) :
            n \in (PollReplyMinLen - MaxOver)
                  .. (PollReplyLastIndex + 1 + MaxOver)}
    \cup {opDatagram(OpPoll, n) :
            n \in (PollMinLen - 1) .. (PollMinLen + MaxOver)}
    \cup {opDatagram(OpDmx + 1, 10 + k) : k \in 0 .. MaxOver}
    \cup {DataBytes(DmxHeaderLen + k) : k \in 0 .. MaxOver}
    \cup {SubSeq(ArtNetID, 1, k) : k \in 0 .. 8}

\* The codecs with no packet built or received yet.
InitCodec ==
    /\ mappings = <<>>
    /\ bySource = <<>>
    /\ outputs = <<>>
    /\ touched = {}
    /\ lastCall = NoCall
    /\ IdleProcs
    /\ NoPush
    /\ NewArtSender({})
    /\ NewSacnSender({})
    /\ NoDiscovery
    /\ NoApp
    /\ wire = <<>>
    /\ NoLoops

codecFrame ==
    UNCHANGED <<engineVars, touched, procVars, pushVars, artVars, sacnVars,
                discVars, appVars, loopVars>>

\* A packet is on its way to the receiver.
PacketInFlight ==
    /\ lastCall.op \in {"BuildDMXPacket", "BuildDataPacket", "datagram"}
    /\ ~lastCall.panic

\* The process has panicked.
Crashed == lastCall.op \in {"BuildDMXPacket", "handlePacket"} /\ lastCall.panic

\* A sender calls BuildDMXPacket and the packet is sent.
ArtBuild(universe, sequence, data) ==
    /\ ~PacketInFlight /\ ~Crashed
    /\ LET built == BuildDMXPacket(universe, sequence, data)
       IN  /\ lastCall' = [op |-> "BuildDMXPacket", universe |-> universe,
                           sequence |-> sequence, data |-> data,
                           panic |-> built.panic]
           /\ wire' = built.buf
    /\ codecFrame

\* A datagram of another sender arrives.
ArtArrive(data) ==
    /\ ~PacketInFlight /\ ~Crashed
    /\ lastCall' = [op |-> "datagram", panic |-> FALSE]
    /\ wire' = data
    /\ codecFrame

\* Receiver.handlePacket on the packet in flight.
ArtHandlePacket ==
    /\ PacketInFlight
    /\ LET parsed == ParsePacket(wire)
       IN  lastCall' = [op |-> "handlePacket", sent |-> lastCall,
                        data |-> wire, parsed |-> parsed,
                        delivered |-> delivery(parsed),
                        panic |-> parsed.panic]
    /\ UNCHANGED wire
    /\ codecFrame

NextArtCodec ==
    \/ \E universe \in CodecUniverses, sequence \in CodecSequences,
          data \in CodecData : ArtBuild(universe, sequence, data)
    \/ \E data \in ArtDatagrams : ArtArrive(data)
    \/ ArtHandlePacket

SpecArtCodec == InitCodec /\ [][NextArtCodec]_vars

\* ------------------------------------------------------------- sACN codec

\* The bytes of an E1.31 data packet before its DMX data.
SacnHeaderLen == 126

\* The bytes of the source name field.
SourceNameLen == 64

\* The bytes of a CID.
CidLen == 16

VectorRootE131Data == 4

VectorE131DataPacket == 2

VectorDMPSetProperty == 2

\* The flags 0x7 in the high 4 bits of a flags-and-length field.
PduFlags == 28672

\* "ASC-E1.17" and three zero bytes.
packetIdentifier == <<65, 83, 67, 45, 69, 49, 46, 49, 55, 0, 0, 0>>

\* binary.BigEndian.PutUint32 and binary.BigEndian.Uint32 of b[i:i+4].
PutBE32(v) ==
    <<(v \div 16777216) % 256, (v \div 65536) % 256, (v \div 256) % 256,
      v % 256>>

BE32(b, i) ==
    16777216 * At(b, i) + 65536 * At(b, i + 1) + 256 * At(b, i + 2)
    + At(b, i + 3)

\* 0x7000|uint16(n), for the lengths of a packet (below 4096).
FlagsAndLength(n) == PutBE16(PduFlags + n)

\* The property value count with the START code left out.
propertyValueCountNoStartCode(dataLen) == dataLen

\* The property value count: the data and the START code.
propertyValueCount(dataLen) == dataLen + 1

\* BuildDataPacket: root layer, framing layer and DMP layer with the data.
BuildDataPacket(universe, sequence, sourceName, cid, data) ==
    LET dataLen == Min(Len(data), MaxDmxLen)
        pktLen == SacnHeaderLen + dataLen
    IN  PutBE16(16) \o PutBE16(0) \o packetIdentifier
        \o FlagsAndLength(pktLen - 16) \o PutBE32(VectorRootE131Data)
        \o CopyInto(CidLen, cid)
        \o FlagsAndLength(pktLen - 38) \o PutBE32(VectorE131DataPacket)
        \o CopyInto(SourceNameLen, SubSeq(sourceName, 1,
                                          Min(Len(sourceName), SourceNameLen)))
        \o <<100>> \o PutBE16(0) \o <<sequence, 0>> \o PutBE16(universe)
        \o FlagsAndLength(11 + dataLen) \o <<VectorDMPSetProperty, 161>>
        \o PutBE16(0) \o PutBE16(1) \o PutBE16(propertyValueCount(dataLen))
        \o <<0>> \o SubSeq(data, 1, dataLen)

\* The call of the DMX handler, and no call.
SacnDelivery(universe, dmxData) ==
    [ok |-> TRUE, universe |-> universe, dmxData |-> dmxData]

SacnDropped == [ok |-> FALSE, universe |-> 0, dmxData |-> <<>>]

\* The length of the data with no clamp.
sacnDmxLenUnclamped(propCount) == propCount - 1

\* The length of the data of a packet: the property count less the START
\* code, 512 at most.
sacnDmxLen(propCount) == Min(propCount - 1, MaxDmxLen)

\* Receiver.handlePacket: the checks, and the call of the handler with the
\* universe and the frame.
sacnHandlePacket(data) ==
    IF Len(data) < SacnHeaderLen
    THEN SacnDropped
    ELSE IF At(data, 4) # 65 \/ At(data, 5) # 83 \/ At(data, 6) # 67
    THEN SacnDropped
    ELSE IF BE32(data, 18) # VectorRootE131Data
    THEN SacnDropped
    ELSE IF BE32(data, 40) # VectorE131DataPacket
    THEN SacnDropped
    ELSE IF At(data, 117) # VectorDMPSetProperty
    THEN SacnDropped
    ELSE IF BE16(data, 123) < 1
    THEN SacnDropped
    ELSE LET dmxLen == sacnDmxLen(BE16(data, 123))
         IN  IF Len(data) < SacnHeaderLen + dmxLen
             THEN SacnDropped
             ELSE SacnDelivery(BE16(data, 113),
                               CopyInto(MaxDmxLen,
                                        Slice(data, SacnHeaderLen,
                                              SacnHeaderLen + dmxLen)))

\* The universes, source names, CIDs and data the codec is tried with.
SacnCodecUniverses == {1, 258, 63999}

SourceNames ==
    {<<>>, <<116, 101, 115, 116>>, DataBytes(SourceNameLen + MaxOver)}

Cids == {Zeros(CidLen), DataBytes(CidLen)}

SacnCodecData == {DataBytes(n) : n \in DataLengths}

\* The packet with the byte at an offset replaced.
Patch(data, offset, byte) == [data EXCEPT ![offset + 1] = byte]

\* The packet with its property value count replaced.
SetPropCount(data, count) ==
    Patch(Patch(data, 123, count \div 256), 124, count % 256)

\* A data packet of universe 258 with n data bytes.
SacnBase(n) ==
    BuildDataPacket(258, 1, <<116, 101, 115, 116>>, DataBytes(CidLen),
                    DataBytes(n))

\* The datagrams that arrive: zeros, a data packet with one byte of a checked
\* field changed, with an unchecked byte of the identifier changed, with a
\* property count of 0, with a count above or below the data it carries, and
\* cut short.
SacnDatagrams ==
    {Zeros(n) : n \in (SacnHeaderLen - 1) .. (SacnHeaderLen + MaxOver)}
    \cup {Patch(SacnBase(MaxShort), offset, 1) :
            offset \in {4, 5, 6, 9, 18, 21, 40, 43, 117, 125}}
    \cup {SetPropCount(SacnBase(MaxShort), count) :
            count \in 0 .. (MaxShort + 1 + MaxOver)}
    \cup {SetPropCount(SacnBase(MaxDmxLen), count) :
            count \in (MaxDmxLen - 1) .. (MaxDmxLen + 1 + MaxOver)}
    \cup {SetPropCount(SacnBase(MaxDmxLen - 1), count) :
            count \in {MaxDmxLen + 1, 65535}}
    \cup {SubSeq(SacnBase(MaxShort), 1, n) :
            n \in (SacnHeaderLen - 1) .. (SacnHeaderLen + MaxShort)}

\* A sender calls BuildDataPacket and the packet is sent.
SacnBuild(universe, sequence, sourceName, cid, data) ==
    /\ ~PacketInFlight
    /\ lastCall' = [op |-> "BuildDataPacket", universe |-> universe,
                    sequence |-> sequence, sourceName |-> sourceName,
                    cid |-> cid, data |-> data, panic |-> FALSE]
    /\ wire' = BuildDataPacket(universe, sequence, sourceName, cid, data)
    /\ codecFrame

\* A datagram of another sender arrives.
SacnArrive(data) ==
    /\ ~PacketInFlight
    /\ lastCall' = [op |-> "datagram", panic |-> FALSE]
    /\ wire' = data
    /\ codecFrame

\* Receiver.handlePacket on the packet in flight.
SacnHandlePacket ==
    /\ PacketInFlight
    /\ lastCall' = [op |-> "sacn handlePacket", sent |-> lastCall,
                    data |-> wire, delivered |-> sacnHandlePacket(wire),
                    panic |-> FALSE]
    /\ UNCHANGED wire
    /\ codecFrame

NextSacnCodec ==
    \/ \E universe \in SacnCodecUniverses, sequence \in CodecSequences,
          sourceName \in SourceNames, cid \in Cids, data \in SacnCodecData :
          SacnBuild(universe, sequence, sourceName, cid, data)
    \/ \E data \in SacnDatagrams : SacnArrive(data)
    \/ SacnHandlePacket

SpecSacnCodec == InitCodec /\ [][NextSacnCodec]_vars

\* ------------------------------------------------------- config addresses

\* A string is the sequence of its characters.
DigitChars == <<"0", "1", "2", "3", "4", "5", "6", "7", "8", "9">>

IsDigit(c) == \E i \in 1 .. Len(DigitChars) : DigitChars[i] = c

DigitValue(c) == (CHOOSE i \in 1 .. Len(DigitChars) : DigitChars[i] = c) - 1

\* The value of a string of digits.
RECURSIVE DecValue(_)
DecValue(s) ==
    IF s = <<>> THEN 0
    ELSE 10 * DecValue(SubSeq(s, 1, Len(s) - 1)) + DigitValue(s[Len(s)])

\* strconv.Atoi: a sign or none, and digits, one at least. The numbers tried
\* are within the range of int.
AtoiDigits(s) ==
    IF s # <<>> /\ s[1] \in {"+", "-"} THEN Tail(s) ELSE s

Atoi(s) ==
    IF AtoiDigits(s) = <<>>
       \/ \E i \in 1 .. Len(AtoiDigits(s)) : ~IsDigit(AtoiDigits(s)[i])
    THEN [n |-> 0, ok |-> FALSE]
    ELSE [n |-> IF s[1] = "-" THEN 0 - DecValue(AtoiDigits(s))
                ELSE DecValue(AtoiDigits(s)),
          ok |-> TRUE]

\* fmt.Sprintf("%d", n).
RECURSIVE FormatNat(_)
FormatNat(n) ==
    IF n < 10 THEN <<DigitChars[n + 1]>>
    ELSE FormatNat(n \div 10) \o <<DigitChars[(n % 10) + 1]>>

FormatInt(n) == IF n < 0 THEN <<"-">> \o FormatNat(0 - n) ELSE FormatNat(n)

\* strings.HasPrefix, strings.Index, strings.LastIndex and strings.Contains
\* of a character, strings.Split at a character, strings.TrimSpace.
HasPrefix(s, prefix) ==
    Len(s) >= Len(prefix) /\ SubSeq(s, 1, Len(prefix)) = prefix

Positions(s, c) == {i \in 1 .. Len(s) : s[i] = c}

Index(s, c) ==
    IF Positions(s, c) = {} THEN -1
    ELSE (CHOOSE i \in Positions(s, c) : \A j \in Positions(s, c) : i <= j) - 1

LastIndex(s, c) ==
    IF Positions(s, c) = {} THEN -1
    ELSE (CHOOSE i \in Positions(s, c) : \A j \in Positions(s, c) : i >= j) - 1

Contains(s, c) == Positions(s, c) # {}

RECURSIVE Split(_, _)
Split(s, c) ==
    IF Index(s, c) = -1 THEN <<s>>
    ELSE <<Slice(s, 0, Index(s, c))>>
         \o Split(Slice(s, Index(s, c) + 1, Len(s)), c)

RECURSIVE TrimSpace(_)
TrimSpace(s) ==
    IF s # <<>> /\ s[1] = " " THEN TrimSpace(Tail(s))
    ELSE IF s # <<>> /\ s[Len(s)] = " "
    THEN TrimSpace(SubSeq(s, 1, Len(s) - 1))
    ELSE s

ProtocolArtNet == "artnet"

ProtocolSACN == "sacn"

ArtNetPrefix == <<"a", "r", "t", "n", "e", "t", ":">>

SacnPrefix == <<"s", "a", "c", "n", ":">>

\* The greatest Art-Net universe number, the sACN interval, the size of
\* uint16, and the last channel.
MaxArtNetUniverse == 32767

MinSacnUniverse == 1

MaxSacnUniverse == 63999

Uint16Size == 65536

LastChannel == 512

\* The errors of the parsers, by what they say.
ErrPrefix == "must start with 'artnet:' or 'sacn:' prefix"

ErrSacnDotted == "sACN universes cannot use net.subnet.universe format"

ErrUniverseFormat == "invalid universe format"

ErrInvalidUniverse == "invalid universe"

ErrOutOfRange == "out of range"

ErrInvalidChannel == "invalid channel"

ErrStartAfterEnd == "channel start > end"

ErrToRange == "to address cannot contain range"

\* uint16(n): the low 16 bits.
Uint16(n) == n % Uint16Size

splitProtoPrefix(s) ==
    IF HasPrefix(s, ArtNetPrefix)
    THEN [proto |-> ProtocolArtNet, rest |-> Slice(s, 7, Len(s)), err |-> Nil]
    ELSE IF HasPrefix(s, SacnPrefix)
    THEN [proto |-> ProtocolSACN, rest |-> Slice(s, 5, Len(s)), err |-> Nil]
    ELSE [proto |-> "", rest |-> <<>>, err |-> ErrPrefix]

splitAddr(s) ==
    IF LastIndex(s, ":") # -1
    THEN [universe |-> Slice(s, 0, LastIndex(s, ":")),
          channel |-> Slice(s, LastIndex(s, ":") + 1, Len(s))]
    ELSE [universe |-> s, channel |-> <<>>]

\* return uint16(u), nil
universeNumber(n) == [n |-> Uint16(n), err |-> Nil]

parseUniverseNumber(s, proto) ==
    IF Contains(s, ".")
    THEN IF proto = ProtocolSACN THEN [n |-> 0, err |-> ErrSacnDotted]
         ELSE LET parts == Split(s, ".")
              IN  IF Len(parts) # 3 THEN [n |-> 0, err |-> ErrUniverseFormat]
                  ELSE IF \E i \in 1 .. 3 : ~Atoi(parts[i]).ok
                  THEN [n |-> 0, err |-> ErrInvalidUniverse]
                  ELSE [n |-> (Atoi(parts[1]).n % 128) * 256
                              + (Atoi(parts[2]).n % 16) * 16
                              + (Atoi(parts[3]).n % 16),
                        err |-> Nil]
    ELSE IF ~Atoi(s).ok THEN [n |-> 0, err |-> ErrInvalidUniverse]
    ELSE universeNumber(Atoi(s).n)

\* The zero Universe.
NoUniverse == Universe("", 0)

makeUniverse(proto, n) ==
    IF proto = ProtocolArtNet /\ n > MaxArtNetUniverse
    THEN [value |-> NoUniverse, err |-> ErrOutOfRange]
    ELSE IF proto = ProtocolSACN /\ (n < MinSacnUniverse \/ n > MaxSacnUniverse)
    THEN [value |-> NoUniverse, err |-> ErrOutOfRange]
    ELSE [value |-> Universe(proto, n), err |-> Nil]

\* config.NewUniverse of a string: toUint16, then makeUniverse.
configNewUniverse(proto, num) ==
    IF parseUniverseNumber(num, proto).err # Nil
    THEN [value |-> NoUniverse, err |-> parseUniverseNumber(num, proto).err]
    ELSE makeUniverse(proto, parseUniverseNumber(num, proto).n)

ParseUniverse(s) ==
    IF splitProtoPrefix(s).err # Nil
    THEN [value |-> NoUniverse, err |-> splitProtoPrefix(s).err]
    ELSE configNewUniverse(splitProtoPrefix(s).proto, splitProtoPrefix(s).rest)

\* Universe.String.
UniverseString(u) ==
    IF u.Protocol = ProtocolSACN
    THEN SacnPrefix \o FormatInt(u.Number)
    ELSE ArtNetPrefix \o FormatInt((u.Number \div 256) % 128) \o <<".">>
         \o FormatInt((u.Number \div 16) % 16) \o <<".">>
         \o FormatInt(u.Number % 16)

\* parseChannelRange: "N", "N-" or "N-M".
parseChannelRange(spec) ==
    LET idx == Index(spec, "-")
        first == IF idx # -1 THEN Atoi(Slice(spec, 0, idx)) ELSE Atoi(spec)
        rest == IF idx # -1 THEN Slice(spec, idx + 1, Len(spec)) ELSE <<>>
    IN  IF ~first.ok
        THEN [start |-> 0, end |-> 0, err |-> ErrInvalidChannel]
        ELSE IF idx = -1
        THEN [start |-> first.n, end |-> first.n, err |-> Nil]
        ELSE IF rest # <<>> /\ ~Atoi(rest).ok
        THEN [start |-> first.n, end |-> 0, err |-> ErrInvalidChannel]
        ELSE LET end == IF rest = <<>> THEN LastChannel ELSE Atoi(rest).n
             IN  [start |-> first.n, end |-> end,
                  err |-> IF first.n > end THEN ErrStartAfterEnd ELSE Nil]

FromAddr(universe, start, end) ==
    [Universe |-> universe, ChannelStart |-> start, ChannelEnd |-> end]

ToAddr(universe, start) == [Universe |-> universe, ChannelStart |-> start]

\* FromAddr.parse on a zero FromAddr.
FromAddrParse(s) ==
    LET prefix == splitProtoPrefix(TrimSpace(s))
        addr == splitAddr(prefix.rest)
        u == configNewUniverse(prefix.proto, addr.universe)
        range == parseChannelRange(addr.channel)
    IN  IF prefix.err # Nil
        THEN [value |-> FromAddr(NoUniverse, 0, 0), err |-> prefix.err]
        ELSE IF u.err # Nil
        THEN [value |-> FromAddr(NoUniverse, 0, 0), err |-> u.err]
        ELSE IF addr.channel = <<>>
        THEN [value |-> FromAddr(u.value, 1, LastChannel), err |-> Nil]
        ELSE [value |-> FromAddr(u.value, range.start, range.end),
              err |-> range.err]

\* FromAddr.String with the universe alone for any range from channel 1.
FromAddrStringFromOne(a) ==
    IF a.ChannelStart = 1 THEN UniverseString(a.Universe)
    ELSE UniverseString(a.Universe) \o <<":">> \o FormatInt(a.ChannelStart)
         \o <<"-">> \o FormatInt(a.ChannelEnd)

FromAddrString(a) ==
    IF a.ChannelStart = 1 /\ a.ChannelEnd = LastChannel
    THEN UniverseString(a.Universe)
    ELSE IF a.ChannelStart = a.ChannelEnd
    THEN UniverseString(a.Universe) \o <<":">> \o FormatInt(a.ChannelStart)
    ELSE UniverseString(a.Universe) \o <<":">> \o FormatInt(a.ChannelStart)
         \o <<"-">> \o FormatInt(a.ChannelEnd)

\* ToAddr.parse on a zero ToAddr.
ToAddrParse(s) ==
    LET prefix == splitProtoPrefix(TrimSpace(s))
        addr == splitAddr(prefix.rest)
        u == configNewUniverse(prefix.proto, addr.universe)
    IN  IF prefix.err # Nil
        THEN [value |-> ToAddr(NoUniverse, 0), err |-> prefix.err]
        ELSE IF u.err # Nil
        THEN [value |-> ToAddr(NoUniverse, 0), err |-> u.err]
        ELSE IF addr.channel = <<>>
        THEN [value |-> ToAddr(u.value, 1), err |-> Nil]
        ELSE IF Contains(addr.channel, "-")
        THEN [value |-> ToAddr(u.value, 0), err |-> ErrToRange]
        ELSE IF ~Atoi(addr.channel).ok
        THEN [value |-> ToAddr(u.value, 0), err |-> ErrInvalidChannel]
        ELSE [value |-> ToAddr(u.value, Atoi(addr.channel).n), err |-> Nil]

ToAddrString(a) ==
    IF a.ChannelStart = 1 THEN UniverseString(a.Universe)
    ELSE UniverseString(a.Universe) \o <<":">> \o FormatInt(a.ChannelStart)

\* The parsers, and the String of the value of each.
Parsers == {"ParseUniverse", "FromAddr.parse", "ToAddr.parse"}

parseWith(parser, s) ==
    CASE parser = "ParseUniverse" -> ParseUniverse(s)
      [] parser = "FromAddr.parse" -> FromAddrParse(s)
      [] parser = "ToAddr.parse" -> ToAddrParse(s)

stringOf(parser, value) ==
    CASE parser = "ParseUniverse" -> UniverseString(value)
      [] parser = "FromAddr.parse" -> FromAddrString(value)
      [] parser = "ToAddr.parse" -> ToAddrString(value)

\* The texts given to the parsers: a prefix or none, a universe, a channel
\* suffix or none, blanks around or not.
PrefixTexts == {ArtNetPrefix, SacnPrefix, <<"d", "m", "x", ":">>, <<>>}

UniverseTexts ==
    {<<"0">>, <<"1">>, <<"1", "0", "0">>, <<"3", "2", "7", "6", "7">>,
     <<"3", "2", "7", "6", "8">>, <<"6", "3", "9", "9", "9">>,
     <<"6", "4", "0", "0", "0">>, <<"6", "5", "5", "3", "5">>,
     <<"6", "5", "5", "3", "6">>, <<"6", "5", "5", "3", "7">>,
     <<"9", "8", "3", "0", "3">>, <<"-", "1">>,
     <<"-", "3", "2", "7", "6", "9">>, <<"-", "6", "5", "5", "3", "5">>,
     <<"+", "5">>, <<"0", "0", "7">>, <<>>, <<"a">>,
     <<"0", ".", "0", ".", "0">>, <<"0", ".", "0", ".", "1">>,
     <<"1", "2", "7", ".", "1", "5", ".", "1", "5">>,
     <<"1", "2", "8", ".", "1", "6", ".", "1", "7">>, <<"1", ".", "2">>,
     <<"a", ".", "b", ".", "c">>, <<"1", ".", "2", ".", "3", ".", "4">>}

ChannelTexts ==
    {<<>>, <<":">>, <<":", "1">>, <<":", "0">>, <<":", "5">>,
     <<":", "5", "1", "2">>, <<":", "5", "1", "3">>,
     <<":", "1", "-", "5", "1", "2">>, <<":", "1", "-">>, <<":", "5", "-">>,
     <<":", "3", "-", "7">>, <<":", "7", "-", "3">>, <<":", "-", "1">>,
     <<":", "a", "b", "c">>, <<":", "1", "-", "1", "0", "0">>,
     <<":", "2", "-", "5", "1", "2">>, <<":", "5", "-", "5">>}

ConfigTexts ==
    {pad \o prefix \o universe \o channel \o pad :
        prefix \in PrefixTexts, universe \in UniverseTexts,
        channel \in ChannelTexts, pad \in {<<>>, <<" ">>}}

InitConfig ==
    /\ mappings = <<>>
    /\ bySource = <<>>
    /\ outputs = <<>>
    /\ touched = {}
    /\ \E text \in ConfigTexts : lastCall = [op |-> "input", text |-> text]
    /\ IdleProcs
    /\ NoPush
    /\ NewArtSender({})
    /\ NewSacnSender({})
    /\ NoDiscovery
    /\ NoApp
    /\ wire = <<>>
    /\ NoLoops

\* A parser is called with the text.
Parse(parser) ==
    /\ lastCall.op = "input"
    /\ lastCall' = [op |-> parser, text |-> lastCall.text,
                    value |-> parseWith(parser, lastCall.text).value,
                    err |-> parseWith(parser, lastCall.text).err]
    /\ UNCHANGED wire
    /\ codecFrame

\* The value of a parse with no error is printed, and the text parsed again.
RoundTrip ==
    /\ lastCall.op \in Parsers
    /\ lastCall.err = Nil
    /\ LET text == stringOf(lastCall.op, lastCall.value)
       IN  lastCall' = [op |-> "roundtrip", parser |-> lastCall.op,
                        value |-> lastCall.value, text |-> text,
                        again |-> parseWith(lastCall.op, text)]
    /\ UNCHANGED wire
    /\ codecFrame

NextConfig ==
    \/ \E parser \in Parsers : Parse(parser)
    \/ RoundTrip

SpecConfig == InitConfig /\ [][NextConfig]_vars

\* ---------------------------------------------------------------- startup

\* The channel numbers given in the configurations tried.
ChannelValues == {0, 1, 2, LastChannel - 1, LastChannel, LastChannel + 1}

\* config.Mapping.
Mapping(from, to) == [From |-> from, To |-> to]

\* The mappings tried: every From range and To channel of the values.
ConfigMappings ==
    {Mapping(FromAddr(Universe(ProtocolArtNet, 1), start, end),
             ToAddr(Universe(ProtocolArtNet, 2), to)) :
        start \in ChannelValues, end \in ChannelValues, to \in ChannelValues}

\* Two mappings Load accepts.
GoodMappings ==
    {Mapping(FromAddr(Universe(ProtocolArtNet, 1), 1, LastChannel),
             ToAddr(Universe(ProtocolArtNet, 2), 1)),
     Mapping(FromAddr(Universe(ProtocolArtNet, 1), 2, 2),
             ToAddr(Universe(ProtocolSACN, 1), LastChannel))}

MappingLists ==
    {<<m>> : m \in ConfigMappings}
    \cup {<<m, g>> : m \in ConfigMappings, g \in GoodMappings}
    \cup {<<g, m>> : g \in GoodMappings, m \in ConfigMappings}

\* A second target of the universe of ArtTarget, with another address, and
\* a target with no address.
OtherArtTarget ==
    [Universe |-> Universe(ProtocolArtNet, 1),
     Address |-> TargetAddress(<<10, 0, 1, 2>>, 0)]

NoAddress == TargetAddress(<<>>, 0)

NoAddressTarget ==
    [Universe |-> Universe(ProtocolArtNet, 2), Address |-> NoAddress]

TargetLists ==
    {<<>>, <<ArtTarget>>, <<ArtTarget, SacnTarget>>,
     <<ArtTarget, OtherArtTarget>>, <<OtherArtTarget, ArtTarget>>,
     <<ArtTarget, ArtTarget>>, <<ArtTarget, NoAddressTarget>>}

\* config.Config, as decoded from the file.
Configs == [Targets : TargetLists, Mappings : MappingLists]

ErrAddressRequired == "address is required"

ErrFromStart == "from channel start must be 1-512"

ErrFromEnd == "from channel end must be 1-512"

ErrFromOrder == "from channel start > end"

ErrToChannel == "to channel must be 1-512"

ErrToExceed == "to channels exceed 512"

\* FromAddr.Count.
Count(a) == a.ChannelEnd - a.ChannelStart + 1

\* The checks of a mapping with the end of the To range left unchecked.
mappingErrorNoToEnd(m) ==
    IF m.From.ChannelStart < 1 \/ m.From.ChannelStart > LastChannel
    THEN ErrFromStart
    ELSE IF m.From.ChannelEnd < 1 \/ m.From.ChannelEnd > LastChannel
    THEN ErrFromEnd
    ELSE IF m.From.ChannelStart > m.From.ChannelEnd THEN ErrFromOrder
    ELSE IF m.To.ChannelStart < 1 \/ m.To.ChannelStart > LastChannel
    THEN ErrToChannel
    ELSE Nil

\* The checks of Load on a mapping.
mappingError(m) ==
    IF m.From.ChannelStart < 1 \/ m.From.ChannelStart > LastChannel
    THEN ErrFromStart
    ELSE IF m.From.ChannelEnd < 1 \/ m.From.ChannelEnd > LastChannel
    THEN ErrFromEnd
    ELSE IF m.From.ChannelStart > m.From.ChannelEnd THEN ErrFromOrder
    ELSE IF m.To.ChannelStart < 1 \/ m.To.ChannelStart > LastChannel
    THEN ErrToChannel
    ELSE IF m.To.ChannelStart + Count(m.From) - 1 > LastChannel
    THEN ErrToExceed
    ELSE Nil

\* The first element of a list with an error, or 0.
FirstBad(list, bad(_)) ==
    IF \E i \in 1 .. Len(list) : bad(list[i])
    THEN CHOOSE i \in 1 .. Len(list) :
            bad(list[i]) /\ \A j \in 1 .. (i - 1) : ~bad(list[j])
    ELSE 0

\* Load, of a file that was decoded: the targets are checked for an address,
\* then the mappings for their channels.
Load(cfg) ==
    LET noAddress(t) == t.Address = NoAddress
        badMapping(m) == mappingError(m) # Nil
    IN  IF FirstBad(cfg.Targets, noAddress) # 0 THEN ErrAddressRequired
        ELSE IF FirstBad(cfg.Mappings, badMapping) # 0
        THEN mappingError(cfg.Mappings[FirstBad(cfg.Mappings, badMapping)])
        ELSE Nil

\* Config.Normalize.
Normalize(cfg) ==
    [i \in 1 .. Len(cfg.Mappings) |->
        NormalizedMapping(cfg.Mappings[i].From.Universe,
                          cfg.Mappings[i].From.ChannelStart - 1,
                          cfg.Mappings[i].To.Universe,
                          cfg.Mappings[i].To.ChannelStart - 1,
                          Count(cfg.Mappings[i].From))]

InitStartup ==
    /\ mappings = <<>>
    /\ bySource = <<>>
    /\ outputs = <<>>
    /\ touched = {}
    /\ \E cfg \in Configs : lastCall = [op |-> "config", cfg |-> cfg]
    /\ IdleProcs
    /\ NoPush
    /\ NewArtSender({})
    /\ NewSacnSender({})
    /\ NoDiscovery
    /\ NoApp
    /\ wire = <<>>
    /\ NoLoops

startupFrame ==
    UNCHANGED <<bySource, outputs, touched, procVars, pushVars, artVars,
                sacnVars, discVars, broadcasts, wire, loopVars>>

\* main calls config.Load: an error is fatal.
LoadConfig ==
    /\ lastCall.op = "config"
    /\ lastCall' = [op |-> "Load", cfg |-> lastCall.cfg,
                    err |-> Load(lastCall.cfg)]
    /\ UNCHANGED <<mappings, cfgTargets, targets>>
    /\ startupFrame

\* main hands cfg.Normalize() to the engine.
NormalizeConfig ==
    /\ lastCall.op = "Load"
    /\ lastCall.err = Nil
    /\ mappings' = Normalize(lastCall.cfg)
    /\ lastCall' = [op |-> "Normalize", cfg |-> lastCall.cfg, err |-> Nil]
    /\ UNCHANGED <<cfgTargets, targets>>
    /\ startupFrame

\* main enters the targets of the configuration in its map, and goes on to
\* start the receivers.
ParseTargets ==
    /\ lastCall.op = "Normalize"
    /\ cfgTargets' = lastCall.cfg.Targets
    /\ targets' = parseTargets(lastCall.cfg.Targets, 1, <<>>)
    /\ lastCall' = [op |-> "serving", cfg |-> lastCall.cfg, err |-> Nil]
    /\ UNCHANGED mappings
    /\ startupFrame

NextStartup ==
    \/ LoadConfig
    \/ NormalizeConfig
    \/ ParseTargets

SpecStartup == InitStartup /\ [][NextStartup]_vars

\* ------------------------------------------------------ mapping endpoints

\* The integers given as endpoints: those around 0, around the ends of the
\* Art-Net interval and of uint16, and their counterparts 65536 away.
Around(n) == (n - MaxOver) .. (n + MaxOver)

EndpointIntegers ==
    Around(0) \cup Around(MaxArtNetUniverse) \cup Around(Uint16Size)
    \cup Around(0 - MaxArtNetUniverse - 1)
    \cup Around(Uint16Size + MaxArtNetUniverse)

EndpointKinds == {"FromAddr", "ToAddr"}

\* toUint16 of an integer of the file (int64): uint16(n).
toUint16(n) == Uint16(n)

\* NewUniverse(ProtocolArtNet, data) of the scalar branch.
scalarUniverse(n) == makeUniverse(ProtocolArtNet, toUint16(n))

\* FromAddr.UnmarshalTOML and ToAddr.UnmarshalTOML of an integer.
FromAddrUnmarshalInteger(n) ==
    IF scalarUniverse(n).err # Nil
    THEN [value |-> FromAddr(NoUniverse, 0, 0), err |-> scalarUniverse(n).err]
    ELSE [value |-> FromAddr(scalarUniverse(n).value, 1, LastChannel),
          err |-> Nil]

ToAddrUnmarshalInteger(n) ==
    IF scalarUniverse(n).err # Nil
    THEN [value |-> ToAddr(NoUniverse, 0), err |-> scalarUniverse(n).err]
    ELSE [value |-> ToAddr(scalarUniverse(n).value, 1), err |-> Nil]

\* UnmarshalTOML of a string: parse.
FromAddrUnmarshalString(text) == FromAddrParse(text)

ToAddrUnmarshalString(text) == ToAddrParse(text)

InitEndpoint ==
    /\ mappings = <<>>
    /\ bySource = <<>>
    /\ outputs = <<>>
    /\ touched = {}
    /\ \E n \in EndpointIntegers : lastCall = [op |-> "endpoint", n |-> n]
    /\ IdleProcs
    /\ NoPush
    /\ NewArtSender({})
    /\ NewSacnSender({})
    /\ NoDiscovery
    /\ NoApp
    /\ wire = <<>>
    /\ NoLoops

\* The endpoint n of a mapping is decoded.
UnmarshalInteger(kind) ==
    /\ lastCall.op = "endpoint"
    /\ lastCall' = [op |-> "integer", kind |-> kind, n |-> lastCall.n,
                    scalar |-> IF kind = "FromAddr"
                               THEN FromAddrUnmarshalInteger(lastCall.n)
                               ELSE ToAddrUnmarshalInteger(lastCall.n)]
    /\ UNCHANGED wire
    /\ codecFrame

\* The endpoint "artnet:n" of a mapping is decoded.
UnmarshalString ==
    /\ lastCall.op = "integer"
    /\ LET text == ArtNetPrefix \o FormatInt(lastCall.n)
       IN  lastCall' = [op |-> "string", kind |-> lastCall.kind,
                        n |-> lastCall.n, scalar |-> lastCall.scalar,
                        text |-> IF lastCall.kind = "FromAddr"
                                 THEN FromAddrUnmarshalString(text)
                                 ELSE ToAddrUnmarshalString(text)]
    /\ UNCHANGED wire
    /\ codecFrame

NextEndpoint ==
    \/ \E kind \in EndpointKinds : UnmarshalInteger(kind)
    \/ UnmarshalString

SpecEndpoint == InitEndpoint /\ [][NextEndpoint]_vars

\* ----------------------------------------------------------- poll replies

\* The longest universe list a proxy is built with.
MaxUniverses == 5

\* The destination Art-Net universes of a proxy: 0.0.1 and 1.1.1.
DestUniverses == {1, 273}

UniverseLists ==
    UNION {[1 .. n -> DestUniverses] : n \in 0 .. MaxUniverses}

\* "artmap" and "ArtNet Remapping Proxy".
ShortName == <<97, 114, 116, 109, 97, 112>>

LongName == <<65, 114, 116, 78, 101, 116, 32, 82, 101, 109, 97, 112, 112,
              105, 110, 103, 32, 80, 114, 111, 120, 121>>

PollReplyLen == 239

\* Universe.Net, Universe.SubNet and Universe.Universe.
Net(u) == (u \div 256) % 128

SubNet(u) == (u \div 16) % 16

UniverseNibble(u) == u % 16

\* numPorts of BuildPollReplyPacket.
replyPorts(universes) == Min(Len(universes), ReplyPorts)

\* artnet.BuildPollReplyPacket.
BuildPollReplyPacket(ip, shortName, longName, universes) ==
    [i \in 1 .. PollReplyLen |->
        LET o == i - 1
            port == IF o >= 190 THEN o - 190
                    ELSE IF o >= 182 THEN o - 182 ELSE o - 174
        IN  CASE o < 8 -> ArtNetID[i]
              [] o \in 8 .. 9 -> PutLE16(OpPollReply)[o - 7]
              [] o \in 10 .. 13 -> ip[o - 9]
              [] o \in 14 .. 15 -> PutLE16(ArtNetPort)[o - 13]
              [] o \in 16 .. 17 -> PutBE16(ProtocolVersion)[o - 15]
              [] o = 18 -> IF Len(universes) > 0 THEN Net(universes[1]) ELSE 0
              [] o = 19 -> IF Len(universes) > 0 THEN SubNet(universes[1])
                           ELSE 0
              [] o \in 26 .. 43 -> CopyInto(18, shortName)[o - 25]
              [] o \in 44 .. 107 -> CopyInto(64, longName)[o - 43]
              [] o = 173 -> replyPorts(universes)
              [] o \in 174 .. 177 ->
                    IF port < replyPorts(universes) THEN 192 ELSE 0
              [] o \in 182 .. 185 ->
                    IF port < replyPorts(universes) THEN 128 ELSE 0
              [] o \in 190 .. 193 ->
                    IF port < replyPorts(universes)
                    THEN UniverseNibble(universes[port + 1]) ELSE 0
              [] OTHER -> 0]

\* The ArtPollReply datagram of a device that is no proxy, its fields at the
\* offsets parsePollReplyPacket reads them from.
PollReplyDatagram(ip, pkt) ==
    [i \in 1 .. PollReplyLen |->
        LET o == i - 1
        IN  CASE o < 8 -> ArtNetID[i]
              [] o \in 8 .. 9 -> PutLE16(OpPollReply)[o - 7]
              [] o \in 10 .. 13 -> ip[o - 9]
              [] o \in 14 .. 15 -> PutLE16(pkt.Port)[o - 13]
              [] o \in 16 .. 17 -> PutBE16(ProtocolVersion)[o - 15]
              [] o = 18 -> pkt.NetSwitch
              [] o = 19 -> pkt.SubSwitch
              [] o = 173 -> pkt.NumPortsLo
              [] o \in 174 .. 177 -> pkt.PortTypes[o - 173]
              [] o \in 190 .. 193 -> pkt.SwOut[o - 189]
              [] OTHER -> 0]

\* The peer whose replies are followed, a device or another proxy.
Peer == <<10, 0, 0, 5>>

ReplySources == {Peer, LocalIP}

InitPollReply ==
    /\ NoEngine
    /\ IdleProcs
    /\ NoPush
    /\ NewArtSender({})
    /\ NewSacnSender({})
    /\ NewDiscovery
    /\ NoApp
    /\ NoLoops
    /\ wire = <<>>

\* Discovery.HandlePoll of a proxy with these destination universes:
\* Sender.SendPollReply puts the packet it builds on the wire.
SendPollReply(universes) ==
    /\ wire = <<>>
    /\ wire' = BuildPollReplyPacket(Peer, ShortName, LongName, universes)
    /\ lastCall' = [op |-> "SendPollReply", universes |-> universes]
    /\ UNCHANGED <<engineVars, touched, procVars, pushVars, artVars,
                   sacnVars, discVars, appVars, loopVars>>

\* A device answers a poll.
DevicePollReply(pkt) ==
    /\ wire = <<>>
    /\ wire' = PollReplyDatagram(Peer, pkt)
    /\ lastCall' = [op |-> "DevicePollReply"]
    /\ UNCHANGED <<engineVars, touched, procVars, pushVars, artVars,
                   sacnVars, discVars, appVars, loopVars>>

\* The datagram arrives from src: Receiver.handlePacket parses it and calls
\* App.HandlePollReply, which calls Discovery.HandlePollReply.
ReceivePollReply(src) ==
    /\ wire # <<>>
    /\ wire' = <<>>
    /\ LET call == delivery(ParsePacket(wire))
       IN  /\ call.handler = "HandlePollReply"
           /\ nodes' = upsertNode(nodes, localIP, now, src, call.pkt)
           /\ advertised' =
                 [ip \in DOMAIN nodes' |->
                     IF ip # src THEN advertised[ip]
                     ELSE (IF ip \in DOMAIN nodes THEN advertised[ip] ELSE {})
                          \cup DmxUniverses(call.pkt)]
           /\ lastCall' = [op |-> "HandlePollReply", src |-> src,
                           exists |-> src \in DOMAIN nodes,
                           NumPortsLo |-> call.pkt.NumPortsLo,
                           PortTypes |-> call.pkt.PortTypes]
    /\ UNCHANGED <<engineVars, touched, procVars, pushVars, artVars,
                   sacnVars, localIP, now, cleanupTick, mirror, appVars,
                   loopVars>>

NextPollReply ==
    \/ \E universes \in UniverseLists : SendPollReply(universes)
    \/ \E pkt \in PollReplies : DevicePollReply(pkt)
    \/ \E src \in ReplySources : ReceivePollReply(src)

SpecPollReply == InitPollReply /\ [][NextPollReply]_vars

\* ------------------------------------------------------------ node expiry

\* The clock of this specification counts the ticks of the 10 s ticker.
\* The 60 s of cleanup, in these ticks.
ExpiryTicks == NodeExpiry * CleanupEvery

\* The last tick the clock reaches.
LastTick == MaxTime * CleanupEvery

\* The cleanup ticker firing once a minute.
cleanupDueEveryMinute(t) == t % ExpiryTicks = 0

\* cleanupTicker, time.NewTicker(30 * time.Second), at tick t.
cleanupDue(t) == t % CleanupEvery = 0

\* node.LastSeen.Before(cutoff) at tick t, cutoff being 60 s before.
expiredAt(node, t) == node.LastSeen < t - ExpiryTicks

\* The reply of a node with one output port, of universe 1.
ExpiryReply ==
    [NetSwitch |-> 0, SubSwitch |-> 0, Port |-> ArtNetPort, NumPortsLo |-> 1,
     PortTypes |-> <<128, 64, 0, 0>>, SwOut |-> <<1, 1, 0, 0>>]

\* 10 s pass; the cleanup ticker fires every third time. pollLoop waits in
\* its select and has run the cleanup of a tick before the next 10 s are
\* over.
ClockTick ==
    /\ now < LastTick
    /\ ~cleanupTick
    /\ now' = now + 1
    /\ cleanupTick' = cleanupDue(now + 1)
    /\ UNCHANGED <<engineVars, callVars, procVars, pushVars, artVars,
                   sacnVars, nodes, localIP, advertised, mirror, appVars,
                   wire, loopVars>>

\* pollLoop takes the tick and runs Discovery.cleanup; removed are the
\* nodes of its "node timeout" log lines.
TickerCleanup ==
    /\ cleanupTick
    /\ cleanupTick' = FALSE
    /\ nodes' = [ip \in {i \in DOMAIN nodes : ~expiredAt(nodes[i], now)} |->
                    nodes[ip]]
    /\ advertised' = [ip \in DOMAIN nodes' |-> advertised[ip]]
    /\ lastCall' = [op |-> "cleanup",
                    removed |-> [ip \in DOMAIN nodes \ DOMAIN nodes' |->
                                    nodes[ip]]]
    /\ UNCHANGED <<engineVars, touched, procVars, pushVars, artVars,
                   sacnVars, localIP, now, mirror, appVars, wire,
                   loopVars>>

NextExpiry ==
    \/ \E src \in SourceIPs : HandlePollReply(src, ExpiryReply)
    \/ ClockTick
    \/ TickerCleanup
    \/ \E universe \in QueryUniverses : \E order \in Orders(DOMAIN nodes) :
          GetNodesForUniverse(universe, order)

SpecExpiry == InitDiscovery /\ [][NextExpiry]_vars

\* ---------------------------------------------------------------- claims

ResultUniverses(res) == {res[i].Universe : i \in 1 .. Len(res)}

\* The bytes mapping m copies from srcData are in data at m's destination.
HoldsRange(data, m, srcData) ==
    \A i \in 0 .. (m.Count - 1) : data[m.ToChan + i] = srcData[m.FromChan + i]

SingleMapping == Len(mappings) = 1

\* C1: in an engine built from a single in-range mapping, the
\* GetDirtyOutputs that follows Remap(src, F) on the mapping's source returns
\* exactly one output, for the mapping's destination, whose data holds
\* out[toChan+i] = F[fromChan+i] for every i in [0, count).
C1_SingleMapping ==
    [][(/\ SingleMapping
        /\ lastCall.op = "Remap"
        /\ lastCall.src = mappings[1].From
        /\ lastCall'.op = "GetDirtyOutputs")
       => /\ Len(lastCall'.result) = 1
          /\ lastCall'.result[1].Universe = mappings[1].To
          /\ HoldsRange(lastCall'.result[1].Data, mappings[1],
                        lastCall.srcData)]_vars

\* A GetDirtyOutputs returned the frame of a single-mapping engine; the
\* mapping is a partial, shifted one.
C1_Witness ==
    /\ SingleMapping
    /\ mappings[1].FromChan # mappings[1].ToChan
    /\ mappings[1].Count < FrameLen
    /\ lastCall.op = "GetDirtyOutputs"
    /\ Len(lastCall.result) = 1
    /\ lastCall.result[1].Data # ZeroFrame

\* The mappings of src, by their place in the table, that write byte d of
\* destination u.
Covering(src, u, d) ==
    {k \in 1 .. Len(mappings) :
        /\ mappings[k].From = src
        /\ mappings[k].To = u
        /\ mappings[k].ToChan <= d
        /\ d < mappings[k].ToChan + mappings[k].Count}

MaxOf(S) == CHOOSE x \in S : \A y \in S : y <= x

\* Byte d of destination u after Remap(src, srcData), given the byte before:
\* what the last covering mapping application wrote, else the byte before.
ByteAfterRemap(before, src, srcData, u, d) ==
    IF Covering(src, u, d) = {} THEN before
    ELSE LET m == mappings[MaxOf(Covering(src, u, d))]
         IN  srcData[m.FromChan + (d - m.ToChan)]

IsRemapStep == lastCall'.op = "Remap" /\ vars' # vars

\* C2: every byte of every merge buffer is 0 until a mapping application
\* covers it and then holds what the most recent covering application
\* wrote; a Remap changes no byte outside the destination ranges of the
\* mappings of its own source, and no other call changes a byte at all.
C2_LastWriterWins ==
    /\ \A u \in DOMAIN outputs : outputs[u].data = ZeroFrame
    /\ [][/\ DOMAIN outputs' = DOMAIN outputs
          /\ \A u \in DOMAIN outputs : \A d \in Chans :
                outputs'[u].data[d] =
                    IF IsRemapStep
                    THEN ByteAfterRemap(outputs[u].data[d], lastCall'.src,
                                        lastCall'.srcData, u, d)
                    ELSE outputs[u].data[d]]_vars

\* A buffer holds bytes of two different frames: a later Remap wrote part of
\* it and left the rest as an earlier Remap wrote it.
C2_Witness ==
    \E u \in DOMAIN outputs : \E d1, d2 \in Chans :
        /\ outputs[u].data[d1] \in 1 .. 99
        /\ outputs[u].data[d2] \in 101 .. 199
        /\ lastCall.op = "Remap"

IsGetDirtyOutputsStep == lastCall'.op = "GetDirtyOutputs" /\ vars' # vars

\* C3: GetDirtyOutputs returns an output for exactly the destinations a
\* mapping was applied to since the previous GetDirtyOutputs (or since
\* construction), each once, with the full content of the buffer, and
\* clears every dirty flag: a second call with no Remap in between returns
\* nothing.
C3_DirtyOutputs ==
    [][IsGetDirtyOutputsStep
       => LET res == lastCall'.result
          IN  /\ ResultUniverses(res) = touched
              /\ Len(res) = Cardinality(touched)
              /\ \A i \in 1 .. Len(res) :
                    res[i].Data = outputs[res[i].Universe].data
              /\ \A u \in DOMAIN outputs' : ~outputs'[u].dirty
              /\ (lastCall.op = "GetDirtyOutputs" => res = <<>>)]_vars

\* A GetDirtyOutputs returned one of two destinations, the only dirty one.
C3_Witness ==
    /\ lastCall.op = "GetDirtyOutputs"
    /\ Len(lastCall.result) = 1
    /\ Cardinality(DOMAIN outputs) = 2
    /\ \E u \in DOMAIN outputs : outputs[u].data # ZeroFrame
                                    /\ u \notin ResultUniverses(lastCall.result)

FanOut ==
    /\ Len(mappings) = 2
    /\ mappings[1].From = mappings[2].From
    /\ mappings[1].To # mappings[2].To

\* C4: with two mappings from one source to two different destinations, the
\* GetDirtyOutputs that follows a Remap on that source returns exactly two
\* outputs, one per destination, each with the bytes of its own mapping's
\* source range; and the Remap leaves both destinations dirty.
C4_FanOut ==
    [][(FanOut /\ lastCall.op = "Remap" /\ lastCall.src = mappings[1].From)
       => /\ \A k \in 1 .. 2 : outputs[mappings[k].To].dirty
          /\ (lastCall'.op = "GetDirtyOutputs"
              => LET res == lastCall'.result
                 IN  /\ Len(res) = 2
                     /\ ResultUniverses(res) =
                            {mappings[1].To, mappings[2].To}
                     /\ \A i \in 1 .. 2 : \A k \in 1 .. 2 :
                            res[i].Universe = mappings[k].To
                            => HoldsRange(res[i].Data, mappings[k],
                                          lastCall.srcData))]_vars

\* A GetDirtyOutputs returned both destinations of a fan-out table.
C4_Witness ==
    /\ FanOut
    /\ lastCall.op = "GetDirtyOutputs"
    /\ Len(lastCall.result) = 2
    /\ lastCall.result[1].Data # lastCall.result[2].Data

MappedSources == {mappings[i].From : i \in 1 .. Len(mappings)}

\* C5: a Remap whose source has no mapping in the table changes no merge
\* buffer byte, no dirty flag and no source counter.
C5_UnmatchedNoOp ==
    [][(lastCall'.op = "Remap" /\ lastCall'.src \notin MappedSources)
       => UNCHANGED <<outputs, bySource>>]_vars

\* A Remap on an unmatched source ran on an engine that holds data and a
\* count, and left no buffer dirty.
C5_Witness ==
    /\ lastCall.op = "Remap"
    /\ lastCall.src \notin MappedSources
    /\ \E u \in DOMAIN outputs : outputs[u].data # ZeroFrame
    /\ \A u \in DOMAIN outputs : ~outputs[u].dirty
    /\ \E u \in DOMAIN bySource : bySource[u].counter > 0

\* The mutexes goroutine p holds.
HeldBy(p) == {u \in DOMAIN outputs : outputs[u].mu = p}

Busy(p) == pc[p] # "idle"

\* C6: under any interleaving of Remap and GetDirtyOutputs calls no
\* goroutine holds more than one merge buffer mutex at a time, and every
\* call that has started returns.
C6_NoDeadlock ==
    /\ [](\A p \in Procs : Cardinality(HeldBy(p)) <= 1)
    /\ \A p \in Procs : Busy(p) ~> ~Busy(p)

\* A Remap waits for the mutex that GetDirtyOutputs holds while the other
\* Remap holds the mutex of the other buffer.
C6_Witness ==
    \E p, q \in RemapProcs :
        /\ p # q
        /\ pc[p] = "remapLock"
        /\ outputs[CurrentMapping(p).To].mu = DirtyProc
        /\ HeldBy(q) # {}

\* What the SwapStats that is running has taken of source u so far.
InFlight(u) ==
    IF pc[StatsProc] = "swap" THEN Taken(local[StatsProc].result, u) ELSE 0

\* C8: SwapStats returns a count for every source of the table, and every
\* Remap call on a mapped source is counted in exactly one SwapStats result:
\* per source, the calls made are those SwapStats results have reported,
\* those the running SwapStats has taken and those the counter still holds;
\* so each swap takes the calls made since the previous one and leaves zero.
C8_StatsExact ==
    /\ \A u \in DOMAIN bySource :
          called[u] = reported[u] + InFlight(u) + bySource[u].counter
    /\ lastCall.op = "SwapStats" => DOMAIN lastCall.result = MappedSources

\* A SwapStats has returned a count of two calls for a source; the next one
\* is running, has taken one more call of that source, and a Remap of
\* another source was counted meanwhile.
C8_Witness ==
    \E u, v \in DOMAIN bySource :
        /\ u # v
        /\ lastCall.op = "SwapStats"
        /\ lastCall.result[u] >= 1
        /\ pc[StatsProc] = "swap"
        /\ InFlight(u) >= 1
        /\ bySource[v].counter >= 1
        /\ \E p \in RemapProcs : pc[p] # "idle"

\* C7: fed the same table and the same Remap calls one at a time, the push
\* Remap returns the (universe, data) pairs that the pull engine's
\* GetDirtyOutputs returns right after the corresponding Remap.
C7_PushPullAgree ==
    [][(phase = "collect" /\ phase' = "push")
       => SeqRange(lastCall'.result) = SeqRange(pushLast.result)]_vars

\* Both engines returned the same two outputs in different orders, one of
\* them with a channel no mapping wrote beside a channel a mapping wrote.
C7_Witness ==
    /\ phase = "push"
    /\ lastCall.op = "GetDirtyOutputs"
    /\ Len(pushLast.result) = 2
    /\ lastCall.result # pushLast.result
    /\ \E i \in 1 .. 2 : \E d1, d2 \in Chans :
          /\ pushLast.result[i].Data[d1] = 0
          /\ pushLast.result[i].Data[d2] # 0

\* The sequence number of the k-th Art-Net packet of a universe.
ArtSequenceOfSend(k) == ((k - 1) % 255) + 1

\* C9: per destination universe, the k-th Art-Net SendDMX carries sequence
\* number ((k-1) mod 255) + 1, so 1 first, 1 again after 255 and never 0,
\* whatever was sent for other universes.
C9_ArtSequence ==
    /\ \A u \in ArtUniverses :
          IF artSent[u] = 0 THEN u \notin DOMAIN artSequences
          ELSE artSequences[u] = ArtSequenceOfSend(artSent[u])
    /\ artPacket # NoPacket
       => /\ artPacket.Sequence = ArtSequenceOfSend(artSent[artPacket.Universe])
          /\ artPacket.Sequence \in 1 .. 255

\* The 256th packet of a universe carries sequence 1, with packets of the
\* other universe sent in between.
C9_Witness ==
    \E u, v \in ArtUniverses :
        /\ u # v
        /\ artSent[u] = 256
        /\ artPacket = [Universe |-> u, Sequence |-> 1]
        /\ artSent[v] \in 1 .. 100

\* The sequence number of the k-th sACN packet of a universe.
SacnSequenceOfSend(k) == (k - 1) % 256

\* C10: per universe, the k-th sACN packet, multicast or unicast, carries
\* sequence number (k-1) mod 256: consecutive sends carry consecutive
\* values, 0 follows 255 and nothing is skipped, whatever was sent for other
\* universes.
C10_SacnSequence ==
    /\ \A u \in SacnUniverses :
          sequenceOf(sacnSequences, u) = sacnSent[u] % 256
    /\ sacnPacket # NoPacket
       => sacnPacket.Sequence = SacnSequenceOfSend(sacnSent[sacnPacket.Universe])

\* The 257th packet of a universe, a unicast one, carries sequence 0 again,
\* with packets of the other universe sent in between.
C10_Witness ==
    \E u, v \in SacnUniverses :
        /\ u # v
        /\ sacnSent[u] = 257
        /\ sacnPacket = [Universe |-> u, Sequence |-> 0, Unicast |-> TRUE]
        /\ sacnSent[v] \in 1 .. 100

\* The packets of universe u among those written to a socket, in the order
\* they were written.
WrittenFor(socket, u) == SelectSeq(wire[socket], LAMBDA pkt : pkt.Universe = u)

\* C11: per socket and destination universe, the packets are written in
\* the order of their sequence numbers and no two carry the same number,
\* also when two tasks call SendDMX for the universe concurrently (fewer
\* packets are sent than it takes to wrap).
C11_MonotoneEmission ==
    \A socket \in {"artnet", "sacn"} :
        \A u \in ArtUniverses \cup SacnUniverses :
            LET w == WrittenFor(socket, u)
            IN  \A i, j \in 1 .. Len(w) :
                    i < j => w[i].Sequence < w[j].Sequence

\* A step of HandlePollReply.
IsPollReplyStep == lastCall'.op = "HandlePollReply" /\ now' = now

\* The universes a node holds.
UniverseSet(node) == SeqRange(node.Universes)

\* C12: the node map holds one node per source IP, under that IP; a node
\* holds each universe once, and holds exactly the universes of the DMX
\* output ports of the replies handled from its IP since it was created;
\* while a node exists no step takes a universe from it.
C12_Accumulation ==
    /\ [](\A ip \in DOMAIN nodes :
            /\ nodes[ip].IP = ip
            /\ UniverseSet(nodes[ip]) = advertised[ip]
            /\ Len(nodes[ip].Universes) = Cardinality(advertised[ip]))
    /\ [][\A ip \in DOMAIN nodes \cap DOMAIN nodes' :
            UniverseSet(nodes[ip]) \subseteq UniverseSet(nodes'[ip])]_vars

\* A reply from the IP of a node that held one universe has left it with
\* two, next to a node of another IP.
C12_Witness ==
    /\ lastCall.op = "HandlePollReply"
    /\ lastCall.exists
    /\ lastCall.src \in DOMAIN nodes
    /\ Len(nodes[lastCall.src].Universes) = 2
    /\ Cardinality(DOMAIN nodes) = 2

\* C13: two replies of one IP handled in either order leave the same node
\* map as far as IPs and universe sets go.
C13_Commutative ==
    lastCall.op = "both"
    => /\ DOMAIN nodes = DOMAIN mirror
       /\ \A ip \in DOMAIN nodes :
             UniverseSet(nodes[ip]) = UniverseSet(mirror[ip])

\* Both orders done: the two nodes hold the same two universes, listed in
\* different orders.
C13_Witness ==
    /\ lastCall.op = "both"
    /\ \E ip \in DOMAIN nodes :
          /\ Len(nodes[ip].Universes) = 2
          /\ nodes[ip].Universes # mirror[ip].Universes

\* C14: a cleanup removes every node last seen more than 60 s before the
\* current time and keeps, unchanged, every node seen within the last 60 s;
\* so no node silent for more than 60 s is left after a cleanup, and one
\* whose last reply is at most 60 s old stays.
C14_Expiry ==
    [][(cleanupTick /\ ~cleanupTick')
       => /\ DOMAIN nodes' \subseteq DOMAIN nodes
          /\ \A ip \in DOMAIN nodes :
                IF now - nodes[ip].LastSeen > NodeExpiry
                THEN ip \notin DOMAIN nodes'
                ELSE ip \in DOMAIN nodes' /\ nodes'[ip] = nodes[ip]
          /\ \A ip \in DOMAIN nodes' :
                now' - nodes'[ip].LastSeen <= NodeExpiry]_vars

\* A cleanup has removed a node and kept one last seen exactly 60 s ago.
C14_Witness ==
    /\ lastCall.op = "cleanup"
    /\ lastCall.removed # {}
    /\ \E ip \in DOMAIN nodes : now - nodes[ip].LastSeen = NodeExpiry

\* The nodes of the map that hold universe u.
NodesClaiming(u) ==
    {nodes[ip] : ip \in {i \in DOMAIN nodes : u \in UniverseSet(nodes[i])}}

\* C15: GetNodesForUniverse(u) returns the nodes of the map that hold u,
\* each once, and nothing else; the call leaves the map as it was.
C15_NodesForUniverse ==
    /\ [](lastCall.op = "GetNodesForUniverse"
          => /\ SeqRange(lastCall.result) = NodesClaiming(lastCall.universe)
             /\ Len(lastCall.result) =
                   Cardinality(NodesClaiming(lastCall.universe)))
    /\ [][lastCall'.op = "GetNodesForUniverse" /\ now' = now
          => nodes' = nodes]_vars

\* Of two nodes with universes, the call returned the one that holds the
\* universe asked for.
C15_Witness ==
    /\ lastCall.op = "GetNodesForUniverse"
    /\ Len(lastCall.result) = 1
    /\ Cardinality(DOMAIN nodes) = 2
    /\ \A ip \in DOMAIN nodes : nodes[ip].Universes # <<>>

\* C16: after HandlePollReply from an IP other than the local one the map
\* holds a node of that IP whose lastSeen is the current time, whatever the
\* reply reports, so the node does not expire within the next 60 s.
C16_LastSeen ==
    [][IsPollReplyStep /\ lastCall'.src # localIP
       => /\ lastCall'.src \in DOMAIN nodes'
          /\ nodes'[lastCall'.src].LastSeen = now
          /\ ~expired(nodes'[lastCall'.src], now + NodeExpiry)]_vars

\* A reply has refreshed a node that existed and holds no universe, at a
\* later time than the start.
C16_Witness ==
    /\ lastCall.op = "HandlePollReply"
    /\ lastCall.exists
    /\ nodes[lastCall.src].Universes = <<>>
    /\ nodes[lastCall.src].LastSeen = now
    /\ now = MaxTime

\* C17: HandlePollReply from the local IP leaves the node map as it was.
C17_OwnReply ==
    [][IsPollReplyStep /\ lastCall'.src = localIP
       => nodes' = nodes]_vars

\* A reply of the local IP was handled while the map held nodes, none of
\* them of the local IP.
C17_Witness ==
    /\ lastCall.op = "HandlePollReply"
    /\ lastCall.src = localIP
    /\ DOMAIN nodes = PeerIPs

\* The addresses the last sendOutputs call sent packets of this protocol
\* and universe to, in the order of the packets.
SentTo(proto, u) ==
    LET pkts == SelectSeq(lastCall.sent, LAMBDA pkt :
                    pkt.Protocol = proto /\ pkt.Universe = u)
    IN  [i \in 1 .. Len(pkts) |-> pkts[i].Dst]

\* The outputs of a protocol that the last sendOutputs call was handed.
OutputsOf(proto) ==
    {lastCall.outputs[i] :
        i \in {j \in 1 .. Len(lastCall.outputs) :
                  lastCall.outputs[j].Protocol = proto}}

\* The addresses of the targets the configuration gives for a universe.
ConfiguredTargets(proto, u) ==
    {parseTargetAddr(cfgTargets[i].Address) :
        i \in {j \in 1 .. Len(cfgTargets) :
                  cfgTargets[j].Universe = Universe(proto, u)}}

\* Every packet the last sendOutputs call sent carries the frame of the
\* output of its protocol and universe.
SentFrames ==
    \A i \in 1 .. Len(lastCall.sent) :
        \E out \in OutputsOf(lastCall.sent[i].Protocol) :
            /\ out.Universe = lastCall.sent[i].Universe
            /\ out.Data = lastCall.sent[i].Data

\* C18: an Art-Net output of a universe with a configured target is sent
\* to that target, once, and nowhere else, whatever discovery holds.
C18_TargetFirst ==
    lastCall.op = "sendOutputs"
    => \A out \in OutputsOf("artnet") :
          ConfiguredTargets("artnet", out.Universe) # {}
          => /\ Len(SentTo("artnet", out.Universe)) = 1
             /\ SentTo("artnet", out.Universe)[1]
                   \in ConfiguredTargets("artnet", out.Universe)

\* C19: an Art-Net output goes to each node that claims its universe, one
\* packet each; when no node claims it, to the target of the universe and
\* not to the broadcast addresses; when there is no target either, to each
\* broadcast address, one packet each; and to nobody when there is none.
C19_Fallback ==
    lastCall.op = "sendOutputs"
    => /\ SentFrames
       /\ \A out \in OutputsOf("artnet") :
             LET dsts == SentTo("artnet", out.Universe)
                 claiming == NodesClaiming(out.Universe)
                 configured == ConfiguredTargets("artnet", out.Universe)
             IN  IF claiming # {}
                 THEN /\ SeqRange(dsts) =
                           {UDPAddr(n.IP, n.Port) : n \in claiming}
                      /\ Len(dsts) = Cardinality(claiming)
                 ELSE IF configured # {}
                 THEN Len(dsts) = 1 /\ dsts[1] \in configured
                 ELSE dsts = broadcasts

\* With broadcast addresses configured and a node that claims neither
\* universe, one call sent the output of the universe with a target to the
\* target alone and the other output to the two broadcast addresses.
C19_Witness ==
    /\ lastCall.op = "sendOutputs"
    /\ nodes # <<>>
    /\ Len(broadcasts) = 2
    /\ Len(lastCall.outputs) = 2
    /\ SentTo("artnet", 1) = <<parseTargetAddr(ArtTarget.Address)>>
    /\ SentTo("artnet", 2) = broadcasts

\* C20: an sACN output is sent to the multicast group of its universe, and
\* a unicast copy goes to every sACN target configured for the universe.
C20_SacnUnicastCopies ==
    lastCall.op = "sendOutputs"
    => \A out \in OutputsOf("sacn") :
          LET dsts == SentTo("sacn", out.Universe)
          IN  /\ \E i \in 1 .. Len(dsts) :
                    dsts[i] = MulticastAddr(out.Universe)
              /\ \A addr \in ConfiguredTargets("sacn", out.Universe) :
                    Cardinality({i \in 1 .. Len(dsts) : dsts[i] = addr}) = 1

\* The targets of the SendPoll calls of the current round, in order.
RoundTargets == [i \in 1 .. Len(polls.round) |-> polls.round[i].target]

\* The rounds due and not yet complete: the one of the tick in the channel,
\* and the one under way.
PollsOwed ==
    (IF pollTick THEN 1 ELSE 0) + (IF pc["discovery"] = "polls" THEN 1 ELSE 0)

\* C21: pollLoop polls every target once before it waits on a ticker, and
\* once more per 10 s tick while Stop has not been called; a cleanup tick
\* takes no poll tick away.
C21_PollRounds ==
    /\ pc["discovery"] # "polls" => polls.rounds >= 1
    /\ pc["discovery"] = "select" => RoundTargets = PollTargets
    /\ "discovery" \notin doneCh => polls.rounds + PollsOwed = ticks + 1
    /\ pc["discovery"] = "polls"
       => RoundTargets = SubSeq(PollTargets, 1, Len(polls.round))

\* Three ticks have fired, the third together with the cleanup tick; cleanup
\* has run and the loop waits again, Stop not called.
C21_Witness ==
    /\ ticks = CleanupEvery
    /\ lastCall.op = "cleanup"
    /\ pc["discovery"] = "select"
    /\ ~pollTick
    /\ polls.rounds = CleanupEvery + 1
    /\ "discovery" \notin doneCh

\* After a loop has returned it does nothing more.
ReturnedIsFinal ==
    /\ pc["discovery"] = "returned"
       => /\ pc'["discovery"] = "returned"
          /\ polls' = polls
          /\ nodes' = nodes
    /\ \A r \in Receivers :
          pc[r] = "returned" => pc'[r] = "returned" /\ received'[r] = received[r]

\* A receive loop whose read failed on the closed socket returns.
ClosedReadReturns ==
    \A r \in Receivers :
       pc[r] = "error" /\ r \in connClosed /\ pc'[r] # pc[r]
       => pc'[r] = "returned"

\* C22: once Stop has closed done, pollLoop returns, and polls and cleans up
\* no more after it; a receive loop whose socket Stop closed returns on the
\* read error.
C22_ShutdownTerminates ==
    /\ ("discovery" \in doneCh) ~> (pc["discovery"] = "returned")
    /\ \A r \in Receivers : (r \in connClosed) ~> (pc[r] = "returned")
    /\ [][ReturnedIsFinal /\ ClosedReadReturns]_vars

\* The shutdown is over and the three loops have returned, pollLoop after a
\* round on a tick and a receiver after a read.
C22_Witness ==
    /\ pc["main"] = "close discovery done"
    /\ pc["discovery"] = "returned"
    /\ \A r \in Receivers : pc[r] = "returned"
    /\ polls.rounds >= 2
    /\ received["artnet"] = 1

\* C23: a SendPoll that fails does not end the round or the loop: every
\* target of the round is tried, the loop returns on done only, and the
\* ticks after a failure are served like the others.
C23_SendErrorContinues ==
    /\ pc["discovery"] = "polls" => Len(polls.round) = local["discovery"].k - 1
    /\ pc["discovery"] = "select"
       => /\ Len(polls.round) = Len(PollTargets)
          /\ \A i \in 1 .. Len(PollTargets) :
                polls.round[i].target = PollTargets[i]
    /\ pc["discovery"] = "returned" => "discovery" \in doneCh
    /\ polls.failed /\ "discovery" \notin doneCh
       => /\ ticks + 1 - polls.rounds \in {0, 1}
          /\ cleanupTick => pc["discovery"] \in {"polls", "select"}

\* The first SendPoll of a round failed and the round went on to the second
\* target; later a cleanup ran and a round without a failure was sent.
C23_Witness ==
    /\ polls.failed
    /\ pc["discovery"] = "select"
    /\ polls.rounds = CleanupEvery + 1
    /\ lastCall.op = "cleanup"
    /\ \A i \in 1 .. Len(polls.round) : ~polls.round[i].err

\* The length of an ArtDmx packet's data for n bytes given: at most 512,
\* rounded up to an even number.
ExpectedDmxLength(n) == Min(n, MaxDmxLen) + (Min(n, MaxDmxLen) % 2)

\* The first 512 of the bytes given, and zeros up to n bytes.
ExpectedDmxData(bytes, n) ==
    [i \in 1 .. n |-> IF i <= Min(Len(bytes), MaxDmxLen) THEN bytes[i] ELSE 0]

\* C24: BuildDMXPacket returns 18 + L bytes for data of any length, L the
\* length clamped to 512 and rounded up to even, and ParsePacket of the
\* packet gives opcode Dmx, the universe, the sequence, L, and the data
\* padded with zeros.
C24_DmxRoundTrip ==
    /\ lastCall.op = "BuildDMXPacket"
       => /\ ~lastCall.panic
          /\ Len(wire) = DmxHeaderLen
                         + ExpectedDmxLength(Len(lastCall.data.bytes))
    /\ lastCall.op = "handlePacket" /\ lastCall.sent.op = "BuildDMXPacket"
       => LET L == ExpectedDmxLength(Len(lastCall.sent.data.bytes))
              parsed == lastCall.parsed
          IN  /\ ~parsed.panic
              /\ parsed.err = Nil
              /\ parsed.opCode = OpDmx
              /\ parsed.pkt.Universe = lastCall.sent.universe
              /\ parsed.pkt.Sequence = lastCall.sent.sequence
              /\ parsed.pkt.Length = L
              /\ SubSeq(parsed.pkt.Data, 1, L)
                 = ExpectedDmxData(lastCall.sent.data.bytes, L)

\* The packet has the Art-Net identifier and the opcode.
HasOpCode(data, opCode) ==
    /\ Len(data) >= 10
    /\ Slice(data, 0, 8) = ArtNetID
    /\ LE16(data, 8) = opCode

\* An ArtDmx packet with less data than its length field says.
TruncatedDmx(data) ==
    /\ HasOpCode(data, OpDmx)
    /\ \/ Len(data) < DmxHeaderLen
       \/ Len(data) < DmxHeaderLen + Min(BE16(data, 16), MaxDmxLen)

\* C25: ParsePacket returns an error for an ArtDmx packet with less data
\* than its length field says, and handlePacket calls no handler for it.
C25_TruncatedRejected ==
    lastCall.op = "handlePacket" /\ TruncatedDmx(lastCall.data)
    => /\ lastCall.parsed.err # Nil
       /\ lastCall.delivered = NoDelivery

\* C26: ParsePacket panics on no packet; an ArtPollReply of 207 bytes or
\* more is decoded and handed to HandlePollReply, a shorter one is too
\* short.
C26_DecoderNeverPanics ==
    lastCall.op = "handlePacket"
    => /\ ~lastCall.parsed.panic
       /\ HasOpCode(lastCall.data, OpPollReply)
          => IF Len(lastCall.data) >= PollReplyMinLen
             THEN /\ lastCall.parsed.err = Nil
                  /\ lastCall.delivered.handler = "HandlePollReply"
             ELSE lastCall.parsed.err = ErrPacketTooShort

\* C27: the receiver's decoder accepts what BuildDataPacket builds, for any
\* source name, CID and data, and hands over the universe and a 512-byte
\* frame that starts with the data, 512 bytes of it at most.
C27_SacnRoundTrip ==
    lastCall.op = "sacn handlePacket" /\ lastCall.sent.op = "BuildDataPacket"
    => LET d == lastCall.sent.data
           got == lastCall.delivered
       IN  /\ got.ok
           /\ got.universe = lastCall.sent.universe
           /\ Len(got.dmxData) = MaxDmxLen
           /\ \A i \in 1 .. Min(Len(d), MaxDmxLen) : got.dmxData[i] = d[i]

\* A packet built for universe 63999 from more than 512 bytes, with a
\* source name longer than its field, was decoded.
C27_Witness ==
    /\ lastCall.op = "sacn handlePacket"
    /\ lastCall.sent.op = "BuildDataPacket"
    /\ lastCall.sent.universe = 63999
    /\ Len(lastCall.sent.data) > MaxDmxLen
    /\ Len(lastCall.sent.sourceName) > SourceNameLen
    /\ lastCall.delivered.ok

\* The number of data bytes a packet announces, 512 at most.
AnnouncedLen(data) == Min(BE16(data, 123) - 1, MaxDmxLen)

\* The packet fails one of the checks of the decoder.
SacnMalformed(data) ==
    \/ Len(data) < SacnHeaderLen
    \/ <<At(data, 4), At(data, 5), At(data, 6)>>
       # SubSeq(packetIdentifier, 1, 3)
    \/ Slice(data, 18, 22) # <<0, 0, 0, VectorRootE131Data>>
    \/ Slice(data, 40, 44) # <<0, 0, 0, VectorE131DataPacket>>
    \/ At(data, 117) # VectorDMPSetProperty
    \/ BE16(data, 123) = 0
    \/ Len(data) < SacnHeaderLen + AnnouncedLen(data)

\* C28: the decoder drops a packet shorter than 126 bytes, one that fails
\* the identifier, root vector, framing vector or DMP vector check, one with
\* property count 0, and one with fewer bytes than 126 + min(propCount - 1,
\* 512); any other packet gives one 512-byte frame, the announced data bytes
\* from offset 126 and zeros, with the universe of bytes 113-114.
C28_SacnDecoder ==
    lastCall.op = "sacn handlePacket"
    => LET data == lastCall.data
           got == lastCall.delivered
       IN  /\ ~lastCall.panic
           /\ IF SacnMalformed(data)
              THEN ~got.ok
              ELSE /\ got.ok
                   /\ got.universe = 256 * At(data, 113) + At(data, 114)
                   /\ Len(got.dmxData) = MaxDmxLen
                   /\ \A i \in 1 .. MaxDmxLen :
                         got.dmxData[i] = IF i <= AnnouncedLen(data)
                                          THEN At(data, SacnHeaderLen + i - 1)
                                          ELSE 0

\* A packet that announces more than 512 data bytes and carries 512 was
\* decoded into a frame of its 512 bytes.
C28_Witness ==
    /\ lastCall.op = "sacn handlePacket"
    /\ lastCall.sent.op = "datagram"
    /\ BE16(lastCall.data, 123) > MaxDmxLen + 1
    /\ Len(lastCall.data) = SacnHeaderLen + MaxDmxLen
    /\ lastCall.delivered.ok
    /\ lastCall.delivered.dmxData[MaxDmxLen] # 0

\* C29: the text of a value that ParseUniverse, FromAddr.parse or
\* ToAddr.parse gave is parsed with no error into an equal value; a From of
\* channels 1-512 prints as its universe, and a From of one channel N as the
\* universe and ":N".
C29_ParsePrintRoundTrip ==
    lastCall.op = "roundtrip"
    => /\ lastCall.again.err = Nil
       /\ lastCall.again.value = lastCall.value
       /\ lastCall.parser = "FromAddr.parse"
          => LET a == lastCall.value
             IN  /\ a.ChannelStart = 1 /\ a.ChannelEnd = LastChannel
                    => lastCall.text = UniverseString(a.Universe)
                 /\ a.ChannelStart = a.ChannelEnd
                    => lastCall.text = UniverseString(a.Universe) \o <<":">>
                                       \o FormatInt(a.ChannelStart)

\* A From of an Art-Net universe with channels 1-100 was printed and parsed
\* again.
C29_Witness ==
    /\ lastCall.op = "roundtrip"
    /\ lastCall.parser = "FromAddr.parse"
    /\ lastCall.value.Universe.Protocol = ProtocolArtNet
    /\ lastCall.value.Universe.Number > 0
    /\ lastCall.value.ChannelStart = 1
    /\ lastCall.value.ChannelEnd = 100

\* The text is a prefix and a decimal number.
DecimalUniverse(text) ==
    /\ splitProtoPrefix(text).err = Nil
    /\ ~Contains(splitProtoPrefix(text).rest, ".")
    /\ Atoi(splitProtoPrefix(text).rest).ok

\* The interval of the universe numbers of a protocol.
UniverseInterval(proto) ==
    IF proto = ProtocolArtNet THEN 0 .. MaxArtNetUniverse
    ELSE MinSacnUniverse .. MaxSacnUniverse

\* C30: ParseUniverse of a decimal number n gives the universe of number n
\* if n is in the interval of the protocol, and a range error otherwise,
\* for negative n and n above 65535 too.
C30_UniverseRange ==
    lastCall.op = "ParseUniverse" /\ DecimalUniverse(lastCall.text)
    => LET proto == splitProtoPrefix(lastCall.text).proto
           n == Atoi(splitProtoPrefix(lastCall.text).rest).n
       IN  IF n \in UniverseInterval(proto)
           THEN lastCall.err = Nil /\ lastCall.value = Universe(proto, n)
           ELSE lastCall.err = ErrOutOfRange

\* The bounds of a normalized mapping.
InBounds(m) ==
    /\ m.Count >= 1
    /\ 0 <= m.FromChan
    /\ 0 <= m.ToChan
    /\ m.FromChan + m.Count <= LastChannel
    /\ m.ToChan + m.Count <= LastChannel

\* The normalized mapping of a mapping of the configuration, by the
\* definition of the claim.
Normalized(m) ==
    NormalizedMapping(m.From.Universe, m.From.ChannelStart - 1, m.To.Universe,
                      m.To.ChannelStart - 1,
                      m.From.ChannelEnd - m.From.ChannelStart + 1)

\* C31: the mappings Normalize gives for a configuration Load accepted are
\* those of the configuration in order, 0-indexed, each with Count >= 1 and
\* both ranges within the 512 channels; Load rejects a configuration with a
\* mapping out of these bounds.
C31_NormalizedBounds ==
    /\ lastCall.op \in {"Normalize", "serving"}
       => /\ Len(mappings) = Len(lastCall.cfg.Mappings)
          /\ \A i \in 1 .. Len(mappings) :
                /\ mappings[i] = Normalized(lastCall.cfg.Mappings[i])
                /\ InBounds(mappings[i])
    /\ lastCall.op = "Load"
       /\ (\E i \in 1 .. Len(lastCall.cfg.Mappings) :
              ~InBounds(Normalized(lastCall.cfg.Mappings[i])))
       => lastCall.err # Nil

\* Two mappings were normalized, the first of channels 2-512 to channel 1.
C31_Witness ==
    /\ lastCall.op = "Normalize"
    /\ Len(mappings) = 2
    /\ mappings[1].FromChan = 1
    /\ mappings[1].Count = LastChannel - 1
    /\ mappings[1].ToChan = 0

\* Two targets of the configuration give one universe two addresses.
ConflictingTargets(cfg) ==
    \E i, j \in 1 .. Len(cfg.Targets) :
       /\ cfg.Targets[i].Universe = cfg.Targets[j].Universe
       /\ cfg.Targets[i].Address # cfg.Targets[j].Address

\* C32: a configuration with two targets of one universe and different
\* addresses is refused before the proxy serves.
C32_ConflictingTargetsFatal ==
    lastCall.op \in {"Load", "Normalize", "serving"}
    /\ ConflictingTargets(lastCall.cfg)
    => lastCall.err # Nil

\* The endpoint of a bare integer: Art-Net, the full range or channel 1.
ScalarEndpoint(kind, n) ==
    IF kind = "FromAddr"
    THEN FromAddr(Universe(ProtocolArtNet, n), 1, LastChannel)
    ELSE ToAddr(Universe(ProtocolArtNet, n), 1)

\* C33: the endpoint n and the endpoint "artnet:n" are accepted or refused
\* together; accepted, both are the Art-Net universe n with channels 1-512
\* (From) or channel 1 (To); n outside 0..32767 is refused on both branches.
C33_BranchesAgree ==
    lastCall.op = "string"
    => /\ (lastCall.scalar.err = Nil) <=> (lastCall.text.err = Nil)
       /\ IF lastCall.n \in 0 .. MaxArtNetUniverse
          THEN /\ lastCall.scalar.err = Nil
               /\ lastCall.scalar.value = ScalarEndpoint(lastCall.kind,
                                                         lastCall.n)
               /\ lastCall.text.value = lastCall.scalar.value
          ELSE lastCall.scalar.err # Nil /\ lastCall.text.err # Nil

\* The universes of a reply by the rule of the claim: the ports i below
\* min(NumPortsLo, 4) with bit 0x80 of portTypes[i] set.
ContributedUniverses(pkt) ==
    {NewUniverse(pkt.NetSwitch, pkt.SubSwitch, pkt.SwOut[i + 1]) :
        i \in {j \in 0 .. 3 : /\ j < Min(pkt.NumPortsLo, 4)
                              /\ (pkt.PortTypes[j + 1] \div 128) % 2 = 1}}

\* The universes of the node of an IP, none when there is no node.
UniversesOf(ns, ip) == IF ip \in DOMAIN ns THEN UniverseSet(ns[ip]) ELSE {}

\* C34: a PollReply adds to its node exactly the universes
\* NewUniverse(netSwitch, subSwitch, swOut[i]) of its ports i below
\* min(NumPortsLo, 4) that have bit 0x80 in portTypes[i].
C34_ReplyUniverses ==
    [][wire # <<>> /\ wire' = <<>> /\ lastCall'.src # localIP
       => UniversesOf(nodes', lastCall'.src)
          = UniversesOf(nodes, lastCall'.src)
            \cup ContributedUniverses(ParsePacket(wire).pkt)]_vars

\* A reply that reports five ports, the second of them an input port, has
\* been handled for a node that had universes already.
C34_Witness ==
    /\ lastCall.op = "HandlePollReply"
    /\ lastCall.src # localIP
    /\ lastCall.exists
    /\ lastCall.NumPortsLo = 5
    /\ lastCall.PortTypes = <<128, 64, 0, 0>>
    /\ Len(nodes[lastCall.src].Universes) = 3

\* The universes a receiver takes from the packet on the wire, by the port
\* loop of HandlePollReply.
DecodedUniverses == parseUniverses(ParsePacket(wire).pkt, 1, <<>>)

\* C35: the PollReply a proxy builds for the universe list U decodes, by the
\* port rule of the receiver, to U[i] for each of the first min(|U|, 4)
\* entries.
C35_AdvertisedUniverses ==
    lastCall.op = "SendPollReply"
    => \A i \in 1 .. Min(Len(lastCall.universes), ReplyPorts) :
          /\ i <= Len(DecodedUniverses)
          /\ DecodedUniverses[i] = lastCall.universes[i]

\* The last output taken of a universe, all zeros when none was.
LastSnapshot(u) ==
    IF u \in DOMAIN Snapshots(lastCall) THEN Snapshots(lastCall)[u]
    ELSE ZeroFrame

\* C36: under every interleaving of Remap and GetDirtyOutputs calls, a
\* destination buffer whose dirty flag is false holds the data of the last
\* output GetDirtyOutputs took of its universe, zeros if it took none: a
\* write that no output shows yet leaves the flag set.
C36_NoLostUpdate ==
    \A u \in DOMAIN outputs :
        ~outputs[u].dirty => outputs[u].data = LastSnapshot(u)

\* An output shows what a Remap wrote (the buffer is clean and holds the
\* frame), while a receive task is between the two mappings of the second
\* Remap on the source.
C36_Witness ==
    \E u \in DOMAIN outputs :
        /\ ~outputs[u].dirty
        /\ outputs[u].data # ZeroFrame
        /\ \A i \in Chans : outputs[u].data[i] > 100
        /\ \E p \in RemapProcs : pc[p] = "remapLock" /\ local[p].k = 2
        /\ called[Universe("artnet", 0)] = 2

\* The data hold the bytes the mapping copies from the frame.
HoldsMapping(data, m, srcData) ==
    \A i \in 0 .. m.Count - 1 : data[m.ToChan + i] = srcData[m.FromChan + i]

\* The output taken of universe u in this step shows the Remap of receive
\* task p in part: p stands between two mappings of its call, the output
\* holds the bytes of a mapping into u the call has applied and lacks those
\* of one it has yet to apply.
ShowsPart(p, u) ==
    /\ pc[p] = "remapLock"
    /\ LET ms == bySource[local[p].src].mappings
           data == lastCall'.last[u]
       IN  /\ \E j \in 1 .. local[p].k - 1 :
                 ms[j].To = u /\ HoldsMapping(data, ms[j], local[p].srcData)
           /\ \E j \in local[p].k .. Len(ms) :
                 ms[j].To = u /\ ~HoldsMapping(data, ms[j], local[p].srcData)

\* C37: no output GetDirtyOutputs takes shows a Remap call in part: of the
\* mappings of one call into the universe of the output it holds the bytes
\* of all or of none.
C37_NoPartialSnapshot ==
    [][\A p \in RemapProcs :
          lastCall' # lastCall /\ lastCall'.op = "getDirtyOutput"
          => ~ShowsPart(p, lastCall'.Universe)]_vars

\* The destination channels a mapping writes.
Covers(m, d) == m.ToChan <= d /\ d < m.ToChan + m.Count

\* The byte a mapping copies to destination channel d.
CopiedTo(m, srcData, d) == srcData[m.FromChan + (d - m.ToChan)]

\* Two mappings of the table, the j-th before the k-th, from the source of
\* the last Remap into one destination.
Overlapping(j, k) ==
    /\ j < k
    /\ mappings[j].From = lastCall.src
    /\ mappings[k].From = lastCall.src
    /\ mappings[j].To = mappings[k].To

\* C38: after a Remap on a source with two mappings that write overlapping
\* ranges of one destination, each byte of the overlap holds what the
\* mapping later in the mapping table copies.
C38_TableOrder ==
    lastCall.op = "Remap"
    => \A j, k \in 1 .. Len(mappings) :
          Overlapping(j, k)
          => \A d \in Chans :
                Covers(mappings[j], d) /\ Covers(mappings[k], d)
                /\ (\A l \in (k + 1) .. Len(mappings) :
                       ~(mappings[l].From = lastCall.src
                         /\ mappings[l].To = mappings[k].To
                         /\ Covers(mappings[l], d)))
                => outputs[mappings[k].To].data[d]
                   = CopiedTo(mappings[k], lastCall.srcData, d)

\* A Remap on a source whose two mappings copy different bytes of the frame
\* to one channel of one destination.
C38_Witness ==
    /\ lastCall.op = "Remap"
    /\ Len(mappings) = 2
    /\ Overlapping(1, 2)
    /\ \E d \in Chans :
          /\ Covers(mappings[1], d)
          /\ Covers(mappings[2], d)
          /\ CopiedTo(mappings[1], lastCall.srcData, d)
             # CopiedTo(mappings[2], lastCall.srcData, d)
          /\ outputs[mappings[2].To].data[d]
             = CopiedTo(mappings[2], lastCall.srcData, d)

\* The node was last seen at most 90 s before tick t, and 90 s before only
\* with the cleanup of this tick still to run.
WithinExpiry(node, t, pending) ==
    /\ t - node.LastSeen <= ExpiryTicks + CleanupEvery
    /\ t - node.LastSeen = ExpiryTicks + CleanupEvery => pending

\* C39: with the cleanup ticker firing every 30 s, a node that sends no
\* further PollReply is out of the node map and of the results of
\* GetNodesForUniverse 90 s after its last reply at the latest, and no node
\* is removed earlier than 60 s after its last reply.
C39_BoundedExpiry ==
    [][/\ \A ip \in DOMAIN nodes' :
             WithinExpiry(nodes'[ip], now', cleanupTick')
       /\ lastCall'.op = "GetNodesForUniverse"
          => \A i \in 1 .. Len(lastCall'.result) :
                WithinExpiry(lastCall'.result[i], now', cleanupTick')
       /\ \A ip \in DOMAIN nodes \ DOMAIN nodes' :
             now - nodes[ip].LastSeen >= ExpiryTicks]_vars

\* A cleanup has removed a node 90 s after its last reply and has kept a
\* node last seen 60 s ago.
C39_Witness ==
    /\ lastCall.op = "cleanup"
    /\ \E ip \in DOMAIN lastCall.removed :
          now - lastCall.removed[ip].LastSeen = ExpiryTicks + CleanupEvery
    /\ \E ip \in DOMAIN nodes : now - nodes[ip].LastSeen = ExpiryTicks

====
